---- MODULE Spec2Model ----
(***************************************************************************)
(* Rolling-window hashrate variance engine of bitaxe-monitor               *)
(* (src/src/bitaxe_monitor.py, src/src/variance_persistence.py).           *)
(*                                                                         *)
(* Timestamps are datetimes in the program; here they are whole seconds.   *)
(* Hashrates are floats in the program; here they are integers and every   *)
(* derived statistic is an exact rational [num, den] (den > 0, lowest      *)
(* terms).  Python's None is the value None below.  A square root          *)
(* (x ** 0.5) is computed to one decimal place, rounded down.              *)
(***************************************************************************)
EXTENDS Integers, Sequences, FiniteSets, TLC

VARIABLES
    history,    \* HashrateHistory.history: miner name -> deque of samples
    inOrder,    \* ghost: miner name -> every add_sample so far had a timestamp >= the previous one
    adds,       \* ghost: number of add_sample calls made so far
    result,     \* the last query and the value it returned (NoResult before any)
    dstate,     \* miner name -> mutation counter of its deque (collections.deque's state)
    wpc,        \* where the poller worker is inside add_sample
    wloc,       \* the worker's arguments and locals
    rpc,        \* where the web-server thread is inside get_history_data
    rloc,       \* the reader's arguments and locals
    linear,     \* ghost: results the running query may return if add_sample were atomic
    now,        \* the wall clock (datetime.now()), in seconds
    polls,      \* ghost: number of collect_miner_metrics calls made so far
    poll,       \* ghost: the miner and the fetch outcome of the last collect_miner_metrics
    metrics,    \* the MinerMetrics the last poll of a miner produced
    scoreIn,    \* the arguments of a _calculate_stability_score call
    score,      \* its return value (None while the call has not been made)
    miners,     \* MultiBitaxeMonitor.miners: the configured miner names, in order
    tpc,        \* where the main thread is inside run_monitor's loop
    ticks,      \* ghost: number of loop iterations started so far
    futures,    \* future_to_miner of the running collect_all_metrics, in submission order
    threads,    \* the pool threads that are inside collect_miner_metrics
    all_metrics,    \* collect_all_metrics' local list, in completion order
    latest_metrics, \* MetricsCollector.latest_metrics
    seen,           \* what the last get_latest_metrics call of the web server returned
    em_state,       \* EnhancedBitAxeMonitor(...): not called yet, constructed, or raised
    miners_config,  \* EnhancedBitAxeMonitor.miners_config
    chart_data,     \* EnhancedBitAxeMonitor.chart_data: miner name -> its 'hashrates' deque
    em_latest,      \* EnhancedBitAxeMonitor.latest_metrics
    em_collects,    \* ghost: number of EnhancedBitAxeMonitor.collect_all_metrics calls so far
    last_daily_summary, \* VarianceTracker.last_daily_summary
    tcall,          \* ghost: what the last VarianceTracker.log_miner_variance call did
    tcalls          \* ghost: number of log_miner_variance calls so far

engineVars == <<history, inOrder, adds, result>>

concVars == <<dstate, wpc, wloc, rpc, rloc, linear>>

pollVars == <<now, polls, poll, metrics>>

scoreVars == <<scoreIn, score>>

tickVars == <<miners, tpc, ticks, futures, threads, all_metrics, latest_metrics>>

auxVars == <<seen, em_state, miners_config, chart_data, em_latest, em_collects,
             last_daily_summary, tcall, tcalls>>

vars == <<history, inOrder, adds, result, dstate, wpc, wloc, rpc, rloc, linear,
          now, polls, poll, metrics, scoreIn, score,
          miners, tpc, ticks, futures, threads, all_metrics, latest_metrics,
          seen, em_state, miners_config, chart_data, em_latest, em_collects,
          last_daily_summary, tcall, tcalls>>

----------------------------------------------------------------------------
(* Bounds and input sets *)

MaxAdds == 3

Miners == {"M1", "M2"}

Times == {0, 30, 630}

\* (hashrate_gh, efficiency_pct, voltage_v, expected_hashrate_gh)
SampleInputs ==
    { <<1200, 100, 1, 1200>>, <<1205, 100, 1, 1200>>,
      <<1000, 83, 1, 1200>>,  <<1205, 0, 1, 0>> }

Windows == {-60, 0, 60, 300, 600, 700}

----------------------------------------------------------------------------
(* Values: None and exact rationals *)

None == [isNone |-> TRUE, num |-> 0, den |-> 1]

Abs(x) == IF x < 0 THEN -x ELSE x

RECURSIVE GCD(_, _)
GCD(a, b) == IF b = 0 THEN a ELSE GCD(b, a % b)

\* the rational n/d (d # 0) in lowest terms with a positive denominator
Rat(n, d) ==
    LET g == GCD(Abs(n), Abs(d))
        s == IF d < 0 THEN -1 ELSE 1
    IN  [isNone |-> FALSE, num |-> s * (n \div g), den |-> s * (d \div g)]

Whole(n) == [isNone |-> FALSE, num |-> n, den |-> 1]

RatAdd(a, b) == Rat(a.num * b.den + b.num * a.den, a.den * b.den)

RatSub(a, b) == Rat(a.num * b.den - b.num * a.den, a.den * b.den)

RatMul(a, b) == Rat(a.num * b.num, a.den * b.den)

\* a / b for b # 0
RatDiv(a, b) == Rat(a.num * b.den, a.den * b.num)

RatLe(a, b) == a.num * b.den <= b.num * a.den

RatMax(a, b) == IF RatLe(a, b) THEN b ELSE a

RatMin(a, b) == IF RatLe(a, b) THEN a ELSE b

RatAbs(a) == [a EXCEPT !.num = Abs(a.num)]

\* round(x, 1): to one decimal place, a tie going to the even digit
Round1(x) ==
    LET n == x.num * 10
        q == n \div x.den
        r == n - q * x.den
    IN  IF 2 * r < x.den THEN Rat(q, 10)
        ELSE IF 2 * r > x.den THEN Rat(q + 1, 10)
        ELSE IF q % 2 = 0 THEN Rat(q, 10) ELSE Rat(q + 1, 10)

\* Python truth value of an Optional[float]: None and 0 are false
Truthy(v) == ~v.isNone /\ v.num # 0

NoResult == [op |-> "none", miner |-> "", window |-> 0, value |-> None]

RECURSIVE SumSeq(_)
SumSeq(s) == IF s = <<>> THEN 0 ELSE Head(s) + SumSeq(Tail(s))

RECURSIVE SumSq(_)
SumSq(s) == IF s = <<>> THEN 0 ELSE Head(s) * Head(s) + SumSq(Tail(s))

\* largest r >= 0 with r * r <= x, searched in lo..hi
RECURSIVE IsqrtIn(_, _, _)
IsqrtIn(x, lo, hi) ==
    IF lo >= hi THEN lo
    ELSE LET mid == (lo + hi + 1) \div 2
         IN  IF mid * mid <= x THEN IsqrtIn(x, mid, hi) ELSE IsqrtIn(x, lo, mid - 1)

Isqrt(x) == IF x < 1048576 THEN IsqrtIn(x, 0, 1023) ELSE IsqrtIn(x, 1024, 46340)

\* v ** 0.5 for a rational v >= 0, to one decimal place (rounded down)
Sqrt(v) == Rat(Isqrt((v.num * 100) \div v.den), 10)

----------------------------------------------------------------------------
(* HashrateHistory *)

max_history_seconds == 600

Sample(timestamp, hashrate_gh, efficiency_pct, voltage_v, expected_hashrate_gh) ==
    [ts |-> timestamp, hashrate |-> hashrate_gh, efficiency |-> efficiency_pct,
     voltage |-> voltage_v, expected |-> expected_hashrate_gh]

\* history[-1]: the newest sample of a non-empty deque
Newest(buf) == buf[Len(buf)]

\* self.history[miner_name] on a defaultdict(deque): the deque, created empty if missing
HistoryIndex(h, miner_name) ==
    IF miner_name \in DOMAIN h THEN h[miner_name] ELSE <<>>

\* a lookup that falls back to some recorded miner's deque for an unknown name
HistoryGetAny(h, miner_name) ==
    IF miner_name \in DOMAIN h THEN h[miner_name]
    ELSE IF DOMAIN h # {} THEN h[CHOOSE k \in DOMAIN h : TRUE] ELSE <<>>

\* self.history.get(miner_name, deque()): the deque, or a fresh empty one
HistoryGet(h, miner_name) ==
    IF miner_name \in DOMAIN h THEN h[miner_name] ELSE <<>>

\* the mapping after self.history[miner_name] (a defaultdict inserts the missing key)
MappingAfterIndex(h, miner_name) ==
    IF miner_name \in DOMAIN h THEN h ELSE h @@ (miner_name :> <<>>)

\* the mapping after self.history.get(miner_name, deque()) (dict.get inserts nothing)
MappingAfterGet(h, miner_name) == h

\* eviction with an if in place of the while: at most one sample is dropped
EvictOnce(buf, cutoff_time) ==
    IF buf # <<>> /\ buf[1].ts < cutoff_time THEN Tail(buf) ELSE buf

\* eviction that also drops a sample standing exactly on the cutoff
RECURSIVE EvictThrough(_, _)
EvictThrough(buf, cutoff_time) ==
    IF buf # <<>> /\ buf[1].ts <= cutoff_time
    THEN EvictThrough(Tail(buf), cutoff_time)
    ELSE buf

\* while history and history[0][0] < cutoff_time: history.popleft()
RECURSIVE Evict(_, _)
Evict(buf, cutoff_time) ==
    IF buf # <<>> /\ buf[1].ts < cutoff_time
    THEN Evict(Tail(buf), cutoff_time)
    ELSE buf

\* an add_sample that appends and evicts nothing
AddSampleBufferKeepAll(h, miner_name, timestamp, hashrate_gh, efficiency_pct, voltage_v, expected_hashrate_gh) ==
    Append(HistoryIndex(h, miner_name),
           Sample(timestamp, hashrate_gh, efficiency_pct, voltage_v, expected_hashrate_gh))

\* an add_sample whose eviction horizon is 10 s, shorter than the query windows
AddSampleBufferShort(h, miner_name, timestamp, hashrate_gh, efficiency_pct, voltage_v, expected_hashrate_gh) ==
    LET appended == Append(HistoryIndex(h, miner_name),
                           Sample(timestamp, hashrate_gh, efficiency_pct, voltage_v, expected_hashrate_gh))
    IN  Evict(appended, timestamp - 10)

\* an add_sample that inserts at the head (appendleft) before evicting
AddSampleBufferHead(h, miner_name, timestamp, hashrate_gh, efficiency_pct, voltage_v, expected_hashrate_gh) ==
    LET appended == <<Sample(timestamp, hashrate_gh, efficiency_pct, voltage_v, expected_hashrate_gh)>>
                        \o HistoryIndex(h, miner_name)
        cutoff_time == timestamp - max_history_seconds
    IN  Evict(appended, cutoff_time)

\* the deque of miner_name after add_sample
AddSampleBuffer(h, miner_name, timestamp, hashrate_gh, efficiency_pct, voltage_v, expected_hashrate_gh) ==
    LET appended == Append(HistoryIndex(h, miner_name),
                           Sample(timestamp, hashrate_gh, efficiency_pct, voltage_v, expected_hashrate_gh))
        cutoff_time == timestamp - max_history_seconds
    IN  Evict(appended, cutoff_time)

\* an add_sample on a mapping whose keys all refer to one shared deque
add_sample_shared(miner_name, timestamp, hashrate_gh, efficiency_pct, voltage_v, expected_hashrate_gh) ==
    /\ adds < MaxAdds
    /\ history' = [m \in DOMAIN history \cup {miner_name} |->
                      AddSampleBuffer(history, miner_name, timestamp, hashrate_gh,
                                      efficiency_pct, voltage_v, expected_hashrate_gh)]
    /\ inOrder' = [m \in DOMAIN history \cup {miner_name} |-> TRUE]
    /\ adds' = adds + 1
    /\ result' = NoResult
    /\ UNCHANGED <<concVars, pollVars, scoreVars, tickVars, auxVars>>

\* an add_sample that refuses a timestamp earlier than the previous sample's
add_sample_in_order(miner_name, timestamp, hashrate_gh, efficiency_pct, voltage_v, expected_hashrate_gh) ==
    /\ adds < MaxAdds
    /\ LET old == HistoryIndex(history, miner_name)
       IN  old # <<>> => timestamp >= Newest(old).ts
    /\ history' = [m \in DOMAIN history \cup {miner_name} |->
                      IF m = miner_name
                      THEN AddSampleBuffer(history, miner_name, timestamp, hashrate_gh,
                                           efficiency_pct, voltage_v, expected_hashrate_gh)
                      ELSE history[m]]
    /\ inOrder' = [m \in DOMAIN history \cup {miner_name} |-> TRUE]
    /\ adds' = adds + 1
    /\ result' = NoResult
    /\ UNCHANGED <<concVars, pollVars, scoreVars, tickVars, auxVars>>

add_sample(miner_name, timestamp, hashrate_gh, efficiency_pct, voltage_v, expected_hashrate_gh) ==
    /\ adds < MaxAdds
    /\ LET old == HistoryIndex(history, miner_name)
           buf == AddSampleBuffer(history, miner_name, timestamp, hashrate_gh,
                                  efficiency_pct, voltage_v, expected_hashrate_gh)
       IN  /\ history' = [m \in DOMAIN history \cup {miner_name} |->
                             IF m = miner_name THEN buf ELSE history[m]]
           /\ inOrder' = [m \in DOMAIN history \cup {miner_name} |->
                             IF m = miner_name
                             THEN (old = <<>> \/ (inOrder[m] /\ timestamp >= old[Len(old)].ts))
                             ELSE inOrder[m]]
    /\ adds' = adds + 1
    /\ result' = NoResult
    /\ UNCHANGED <<concVars, pollVars, scoreVars, tickVars, auxVars>>

----------------------------------------------------------------------------
(* Queries, as functions of the mapping h *)

\* the window measured forward from the newest sample (cutoff = current_time + window)
InWindowForward(buf, window_seconds) ==
    LET cutoff_time == buf[Len(buf)].ts + window_seconds
    IN  SelectSeq(buf, LAMBDA s : s.ts >= cutoff_time)

\* the samples of buf with timestamp >= cutoff_time, in order
InWindow(buf, window_seconds) ==
    LET cutoff_time == buf[Len(buf)].ts - window_seconds
    IN  SelectSeq(buf, LAMBDA s : s.ts >= cutoff_time)

\* the hashrates of the samples that have a baseline only
HashratesWithBaseline(samples) ==
    LET q == SelectSeq(samples, LAMBDA s : s.expected > 0)
    IN  [i \in 1..Len(q) |-> q[i].hashrate]

Hashrates(samples) == [i \in 1..Len(samples) |-> samples[i].hashrate]

\* statistics.pvariance(samples): sum((x - mean)^2) / n
statistics_pvariance(samples) ==
    LET n == Len(samples)
    IN  Rat(n * SumSq(samples) - SumSeq(samples) * SumSeq(samples), n * n)

\* statistics.variance(samples): sum((x - mean)^2) / (n - 1), exactly;
\* sum((x - mean)^2) = (n * sum(x^2) - sum(x)^2) / n
statistics_variance(samples) ==
    LET n == Len(samples)
    IN  Rat(n * SumSq(samples) - SumSeq(samples) * SumSeq(samples), n * (n - 1))

\* calculate_variance without the two-sample threshold: 0 for an empty or one-sample window
calculate_variance_zero(h, miner_name, window_seconds) ==
    LET buf == HistoryGet(h, miner_name)
    IN  IF buf = <<>> THEN Whole(0)
        ELSE LET samples == Hashrates(InWindow(buf, window_seconds))
             IN  IF Len(samples) < 2 THEN Whole(0)
                 ELSE statistics_variance(samples)

calculate_variance(h, miner_name, window_seconds) ==
    LET buf == HistoryGet(h, miner_name)
    IN  IF buf = <<>> THEN None
        ELSE LET samples == Hashrates(InWindow(buf, window_seconds))
             IN  IF Len(samples) < 2 THEN None
                 ELSE statistics_variance(samples)

calculate_std_dev(h, miner_name, window_seconds) ==
    LET variance == calculate_variance(h, miner_name, window_seconds)
    IN  IF variance.isNone THEN None ELSE Sqrt(variance)

\* a count whose window ends at the wall clock instead of at the newest sample
get_sample_count_wallclock(h, miner_name, window_seconds) ==
    LET buf == HistoryGet(h, miner_name)
    IN  IF buf = <<>> THEN 0
        ELSE Len(SelectSeq(buf, LAMBDA s : s.ts >= now - window_seconds))

get_sample_count(h, miner_name, window_seconds) ==
    LET buf == HistoryGet(h, miner_name)
    IN  IF buf = <<>> THEN 0
        ELSE Len(InWindow(buf, window_seconds))

\* the deviations of all samples, a sample without a baseline (expected 0) included
DeviationsAll(samples) ==
    [i \in 1..Len(samples) |-> samples[i].hashrate - samples[i].expected]

\* deviations of the qualifying samples measured against the newest sample's baseline
DeviationsFromNewest(samples) ==
    LET q == SelectSeq(samples, LAMBDA s : s.expected > 0)
    IN  [i \in 1..Len(q) |-> q[i].hashrate - samples[Len(samples)].expected]

\* the deviations hashrate - expected_hashrate of the samples with expected_hashrate > 0
Deviations(samples) ==
    LET q == SelectSeq(samples, LAMBDA s : s.expected > 0)
    IN  [i \in 1..Len(q) |-> q[i].hashrate - q[i].expected]

\* sqrt(sum((x - mean)^2) / len(xs)): the population standard deviation
PopulationStdDev(xs) ==
    LET n == Len(xs)
    IN  Sqrt(Rat(n * SumSq(xs) - SumSeq(xs) * SumSeq(xs), n * n))

\* sqrt(sum((x - mean)^2) / (len(xs) - 1)) for len(xs) > 1
SampleStdDev(xs) ==
    LET n == Len(xs)
    IN  Sqrt(Rat(n * SumSq(xs) - SumSeq(xs) * SumSeq(xs), n * (n - 1)))

EmptyDirectional ==
    [k \in {"positive_variance", "negative_variance", "avg_deviation"} |-> None]

\* a directional variance that puts a zero deviation with the negative ones
calculate_directional_variance_strict(h, miner_name, window_seconds) ==
    LET buf == HistoryGet(h, miner_name)
    IN  IF buf = <<>> THEN EmptyDirectional
        ELSE LET deviations == Deviations(InWindow(buf, window_seconds))
                 positive_deviations == SelectSeq(deviations, LAMBDA d : d > 0)
                 negatives == SelectSeq(deviations, LAMBDA d : d <= 0)
                 negative_deviations == [i \in 1..Len(negatives) |-> Abs(negatives[i])]
             IN  IF Len(deviations) < 2 THEN EmptyDirectional
                 ELSE [k \in {"positive_variance", "negative_variance", "avg_deviation",
                              "positive_count", "negative_count", "total_samples"} |->
                         CASE k = "positive_variance" ->
                                  IF Len(positive_deviations) > 1
                                  THEN SampleStdDev(positive_deviations) ELSE None
                           [] k = "negative_variance" ->
                                  IF Len(negative_deviations) > 1
                                  THEN SampleStdDev(negative_deviations) ELSE None
                           [] k = "avg_deviation" -> Rat(SumSeq(deviations), Len(deviations))
                           [] k = "positive_count" -> Whole(Len(positive_deviations))
                           [] k = "negative_count" -> Whole(Len(negative_deviations))
                           [] k = "total_samples" -> Whole(Len(deviations))]

calculate_directional_variance(h, miner_name, window_seconds) ==
    LET buf == HistoryGet(h, miner_name)
    IN  IF buf = <<>> THEN EmptyDirectional
        ELSE LET deviations == Deviations(InWindow(buf, window_seconds))
                 positive_deviations == SelectSeq(deviations, LAMBDA d : d >= 0)
                 negatives == SelectSeq(deviations, LAMBDA d : d < 0)
                 negative_deviations == [i \in 1..Len(negatives) |-> Abs(negatives[i])]
             IN  IF Len(deviations) < 2 THEN EmptyDirectional
                 ELSE [k \in {"positive_variance", "negative_variance", "avg_deviation",
                              "positive_count", "negative_count", "total_samples"} |->
                         CASE k = "positive_variance" ->
                                  IF Len(positive_deviations) > 1
                                  THEN SampleStdDev(positive_deviations) ELSE None
                           [] k = "negative_variance" ->
                                  IF Len(negative_deviations) > 1
                                  THEN SampleStdDev(negative_deviations) ELSE None
                           [] k = "avg_deviation" -> Rat(SumSeq(deviations), Len(deviations))
                           [] k = "positive_count" -> Whole(Len(positive_deviations))
                           [] k = "negative_count" -> Whole(Len(negative_deviations))
                           [] k = "total_samples" -> Whole(Len(deviations))]

\* timestamp.isoformat()
IsoFormat(timestamp) == <<"iso", timestamp>>

get_history_data(h, miner_name, window_seconds) ==
    LET buf == HistoryGet(h, miner_name)
    IN  IF buf = <<>> THEN <<>>
        ELSE LET samples == InWindow(buf, window_seconds)
             IN  [i \in 1..Len(samples) |->
                    [time |-> IsoFormat(samples[i].ts),
                     hashrate |-> samples[i].hashrate,
                     efficiency |-> samples[i].efficiency,
                     voltage |-> samples[i].voltage,
                     expected_hashrate |-> samples[i].expected,
                     deviation |-> IF samples[i].expected > 0
                                   THEN samples[i].hashrate - samples[i].expected ELSE 0]]

----------------------------------------------------------------------------
(* Specification: any sequence of add_sample calls *)

NoScoreIn ==
    [positive_var |-> None, negative_var |-> None,
     avg_deviation |-> Whole(0), expected_hashrate |-> Whole(0)]

NoPoll == [miner |-> "", outcome |-> "none"]

NoMetrics == [status |-> "NONE"]

NoWorker == [miner |-> "", sample |-> <<>>, cutoff_time |-> 0, before |-> <<>>]

\* before any get_latest_metrics call
NoSeen == [called |-> FALSE, metrics |-> <<>>]

\* EnhancedBitAxeMonitor.latest_metrics = {} before the first collect_all_metrics
NoFleet == [collected |-> FALSE]

\* VarianceTracker.last_daily_summary = None
NoDate == 0

\* before any log_miner_variance call. A call is recorded with its date, whether
\* log_variance_data returned, whether generate_daily_summary was invoked and
\* returned, whether an exception left log_miner_variance, the value of
\* last_daily_summary when the call began, and the dates whose summary had
\* succeeded by then, and whether the call before it had the same date and saw
\* generate_daily_summary raise
NoTrackerCall == [date |-> NoDate, logged |-> FALSE, invoked |-> FALSE,
                  summary_ok |-> FALSE, propagated |-> FALSE, before |-> NoDate,
                  done |-> {}, after_failure |-> FALSE]

NoReader ==
    [miner |-> "", window |-> 0, ref |-> "none", cutoff_time |-> 0,
     it_state |-> 0, it_index |-> 0, it_counter |-> 0, data |-> <<>>]

Init ==
    /\ history = <<>>
    /\ inOrder = <<>>
    /\ adds = 0
    /\ result = NoResult
    /\ dstate = <<>>
    /\ wpc = "idle"
    /\ wloc = NoWorker
    /\ rpc = "idle"
    /\ rloc = NoReader
    /\ linear = {}
    /\ now = 0
    /\ polls = 0
    /\ poll = NoPoll
    /\ metrics = NoMetrics
    /\ scoreIn = NoScoreIn
    /\ score = None
    /\ miners = <<>>
    /\ tpc = "idle"
    /\ ticks = 0
    /\ futures = <<>>
    /\ threads = {}
    /\ all_metrics = <<>>
    /\ latest_metrics = <<>>
    /\ seen = NoSeen
    /\ em_state = "none"
    /\ miners_config = <<>>
    /\ chart_data = <<>>
    /\ em_latest = NoFleet
    /\ em_collects = 0
    /\ last_daily_summary = NoDate
    /\ tcall = NoTrackerCall
    /\ tcalls = 0

AddSample ==
    \E m \in Miners, t \in Times, s \in SampleInputs :
        add_sample(m, t, s[1], s[2], s[3], s[4])

Next == AddSample

Spec == Init /\ [][Next]_vars

----------------------------------------------------------------------------
(* Specification: add_sample calls for one miner with non-decreasing         *)
(* timestamps, while the miner's baseline changes from call to call and is   *)
(* at times invalid (zero or negative).                                      *)

MaxBaselineAdds == 3

BaselineMiners == {"M1"}

\* (hashrate_gh, efficiency_pct, voltage_v, expected_hashrate_gh)
BaselineSamples ==
    { <<1200, 100, 1, 1200>>, <<1205, 100, 1, 1200>>, <<1000, 91, 1, 1100>>,
      <<1050, 95, 1, 1100>>,  <<1205, 0, 1, 0>>,      <<1190, 0, 1, -100>> }

AddSampleInOrder ==
    /\ adds < MaxBaselineAdds
    /\ \E m \in BaselineMiners, t \in Times, s \in BaselineSamples :
          /\ HistoryIndex(history, m) # <<>> => t >= Newest(HistoryIndex(history, m)).ts
          /\ add_sample(m, t, s[1], s[2], s[3], s[4])

NextBaseline == AddSampleInOrder

SpecBaseline == Init /\ [][NextBaseline]_vars

----------------------------------------------------------------------------
(* Specification: add_sample calls interleaved with queries, each query a    *)
(* whole call made from one thread, its return value kept in result.         *)

QuerySamples == { <<1200, 100, 1, 1200>>, <<1000, 83, 1, 1200>> }

QueryTimes == {0, 630}

QueryWindows == {-60, 0, 60, 600}

MaxQueryAdds == 2

\* what a query does to the state: the mapping after its lookup, and its return value
Query(op, miner_name, window_seconds, value) ==
    /\ history' = MappingAfterGet(history, miner_name)
    /\ result' = [op |-> op, miner |-> miner_name, window |-> window_seconds, value |-> value]
    /\ UNCHANGED <<inOrder, adds, concVars, pollVars, scoreVars, tickVars, auxVars>>

AddSampleQ ==
    /\ adds < MaxQueryAdds
    /\ \E m \in Miners, t \in QueryTimes, s \in QuerySamples :
           add_sample(m, t, s[1], s[2], s[3], s[4])

CalculateVariance ==
    \E m \in Miners, w \in QueryWindows :
        Query("calculate_variance", m, w, calculate_variance(history, m, w))

CalculateStdDev ==
    \E m \in Miners, w \in QueryWindows :
        Query("calculate_std_dev", m, w, calculate_std_dev(history, m, w))

CalculateDirectionalVariance ==
    \E m \in Miners, w \in QueryWindows :
        Query("calculate_directional_variance", m, w,
              calculate_directional_variance(history, m, w))

GetSampleCount ==
    \E m \in Miners, w \in QueryWindows :
        Query("get_sample_count", m, w, get_sample_count(history, m, w))

GetHistoryData ==
    \E m \in Miners, w \in QueryWindows :
        Query("get_history_data", m, w, get_history_data(history, m, w))

QueryStep ==
    \/ CalculateVariance
    \/ CalculateStdDev
    \/ CalculateDirectionalVariance
    \/ GetSampleCount
    \/ GetHistoryData

NextQuery == AddSampleQ \/ QueryStep

SpecQuery == Init /\ [][NextQuery]_vars

----------------------------------------------------------------------------
(* Specification: one poller worker inside add_sample and one web-server      *)
(* thread inside get_history_data (GET /api/history/<miner>, window 600) on   *)
(* the same HashrateHistory, with no lock around either.  Each step is one    *)
(* operation on the shared dict or deque, which the interpreter runs whole.   *)
(* A deque iterator remembers the deque's mutation counter and raises         *)
(* RuntimeError("deque mutated during iteration") on its next step when the   *)
(* counter has changed.                                                       *)

MaxConcAdds == 3

ConcMiners == {"M1"}

ConcSamples == { <<1200, 100, 1, 1200>>, <<1205, 100, 1, 1200>> }

HistoryWindow == 600

DState(m) == IF m \in DOMAIN dstate THEN dstate[m] ELSE 0

\* the mapping h after a whole add_sample of sample s for miner m
AfterAdd(h, m, s) ==
    [k \in DOMAIN h \cup {m} |->
        IF k = m
        THEN AddSampleBuffer(h, m, s.ts, s.hashrate, s.efficiency, s.voltage, s.expected)
        ELSE h[k]]

\* history = self.history[miner_name]
W_Lookup ==
    /\ wpc = "idle"
    /\ adds < MaxConcAdds
    /\ \E m \in ConcMiners, t \in Times, s \in ConcSamples :
          /\ HistoryIndex(history, m) # <<>> => t >= Newest(HistoryIndex(history, m)).ts
          /\ history' = MappingAfterIndex(history, m)
          /\ wloc' = [miner |-> m,
                      sample |-> Sample(t, s[1], s[2], s[3], s[4]),
                      cutoff_time |-> t - max_history_seconds,
                      before |-> history]
          /\ linear' = IF rpc \in {"check", "current", "iter", "next"}
                       THEN linear \cup {get_history_data(
                                AfterAdd(history, m, Sample(t, s[1], s[2], s[3], s[4])),
                                rloc.miner, rloc.window)}
                       ELSE linear
    /\ wpc' = "append"
    /\ UNCHANGED <<inOrder, adds, result, dstate, rpc, rloc, pollVars, scoreVars, tickVars, auxVars>>

\* history.append((timestamp, hashrate_gh, ...)); cutoff_time = timestamp - timedelta(...)
W_Append ==
    /\ wpc = "append"
    /\ history' = [history EXCEPT ![wloc.miner] = Append(@, wloc.sample)]
    /\ dstate' = [m \in DOMAIN history |-> IF m = wloc.miner THEN DState(m) + 1 ELSE DState(m)]
    /\ wpc' = "test"
    /\ UNCHANGED <<inOrder, adds, result, wloc, rpc, rloc, linear, pollVars, scoreVars, tickVars, auxVars>>

\* while history and history[0][0] < cutoff_time:   (false: add_sample returns)
W_Test ==
    /\ wpc = "test"
    /\ LET buf == history[wloc.miner]
       IN  IF buf # <<>> /\ buf[1].ts < wloc.cutoff_time
           THEN /\ wpc' = "pop"
                /\ UNCHANGED <<adds, wloc>>
           ELSE /\ wpc' = "idle"
                /\ adds' = adds + 1
                /\ wloc' = NoWorker
    /\ UNCHANGED <<history, inOrder, result, dstate, rpc, rloc, linear, pollVars, scoreVars, tickVars, auxVars>>

\* history.popleft()
W_Popleft ==
    /\ wpc = "pop"
    /\ history' = [history EXCEPT ![wloc.miner] = Tail(@)]
    /\ dstate' = [dstate EXCEPT ![wloc.miner] = @ + 1]
    /\ wpc' = "test"
    /\ UNCHANGED <<inOrder, adds, result, wloc, rpc, rloc, linear, pollVars, scoreVars, tickVars, auxVars>>

\* the deque the reader's local variable history refers to
ReaderDeque == IF rloc.ref = "shared" THEN history[rloc.miner] ELSE <<>>

\* history = self.history.get(miner_name, deque())
R_Get ==
    /\ rpc \in {"idle", "done", "error"}
    /\ \E m \in ConcMiners :
          /\ rloc' = [NoReader EXCEPT !.miner = m, !.window = HistoryWindow,
                                      !.ref = IF m \in DOMAIN history THEN "shared" ELSE "fresh"]
          /\ linear' = IF wpc = "idle"
                       THEN {get_history_data(history, m, HistoryWindow)}
                       ELSE {get_history_data(wloc.before, m, HistoryWindow),
                             get_history_data(AfterAdd(wloc.before, wloc.miner, wloc.sample),
                                              m, HistoryWindow)}
    /\ history' = MappingAfterGet(history, rloc'.miner)
    /\ rpc' = "check"
    /\ UNCHANGED <<inOrder, adds, result, dstate, wpc, wloc, pollVars, scoreVars, tickVars, auxVars>>

\* if not history: return []
R_Check ==
    /\ rpc = "check"
    /\ rpc' = IF ReaderDeque = <<>> THEN "done" ELSE "current"
    /\ UNCHANGED <<engineVars, dstate, wpc, wloc, rloc, linear, pollVars, scoreVars, tickVars, auxVars>>

\* current_time = history[-1][0]; cutoff_time = current_time - timedelta(seconds=window_seconds)
R_Current ==
    /\ rpc = "current"
    /\ rloc' = [rloc EXCEPT !.cutoff_time = Newest(ReaderDeque).ts - rloc.window]
    /\ rpc' = "iter"
    /\ UNCHANGED <<engineVars, dstate, wpc, wloc, linear, pollVars, scoreVars, tickVars, auxVars>>

\* for ... in history:   (the iterator is created)
R_Iter ==
    /\ rpc = "iter"
    /\ rloc' = [rloc EXCEPT !.it_state = DState(rloc.miner),
                            !.it_index = 0,
                            !.it_counter = Len(ReaderDeque)]
    /\ rpc' = "next"
    /\ UNCHANGED <<engineVars, dstate, wpc, wloc, linear, pollVars, scoreVars, tickVars, auxVars>>

\* the dict get_history_data appends for one sample
HistoryEntry(s) ==
    [time |-> IsoFormat(s.ts), hashrate |-> s.hashrate, efficiency |-> s.efficiency,
     voltage |-> s.voltage, expected_hashrate |-> s.expected,
     deviation |-> IF s.expected > 0 THEN s.hashrate - s.expected ELSE 0]

\* one step of the for loop: next(iterator), then the loop body; return data at the end
R_Next ==
    /\ rpc = "next"
    /\ IF DState(rloc.miner) # rloc.it_state
       THEN /\ rpc' = "error"
            /\ UNCHANGED rloc
       ELSE IF rloc.it_counter = 0
       THEN /\ rpc' = "done"
            /\ UNCHANGED rloc
       ELSE LET s == ReaderDeque[rloc.it_index + 1]
            IN  /\ rloc' = [rloc EXCEPT !.it_index = @ + 1,
                                        !.it_counter = @ - 1,
                                        !.data = IF s.ts >= rloc.cutoff_time
                                                 THEN Append(@, HistoryEntry(s)) ELSE @]
                /\ rpc' = "next"
    /\ UNCHANGED <<engineVars, dstate, wpc, wloc, linear, pollVars, scoreVars, tickVars, auxVars>>

NextConc ==
    \/ W_Lookup
    \/ W_Append
    \/ W_Test
    \/ W_Popleft
    \/ R_Get
    \/ R_Check
    \/ R_Current
    \/ R_Iter
    \/ R_Next

SpecConc == Init /\ [][NextConc]_vars

\* the poller worker alone, one statement of add_sample at a time
NextWriter == W_Lookup \/ W_Append \/ W_Test \/ W_Popleft

SpecWriter == Init /\ [][NextWriter]_vars

----------------------------------------------------------------------------
(* ASICSpecs, BitaxeAPI and MetricsCollector.collect_miner_metrics *)

\* ASICSpecs.SPECS: model -> (base_frequency_mhz, base_hashrate_gh)
SPECS ==
    [BM1370 |-> <<600, 1200>>, BM1368 |-> <<650, 700>>,
     BM1366 |-> <<525, 500>>,  BM1397 |-> <<450, 400>>]

\* ASICSpecs._estimate_from_frequency (frequencies are chosen so that the division is exact)
estimate_from_frequency(frequency_mhz) ==
    IF frequency_mhz >= 580 THEN (1200 * frequency_mhz) \div 600
    ELSE IF frequency_mhz >= 500 THEN (600 * frequency_mhz) \div 550
    ELSE (400 * frequency_mhz) \div 450

\* ASICSpecs.calculate_expected_hashrate; asic_model is already upper case and
\* either empty, one of the SPECS keys, or a name that matches none of them
calculate_expected_hashrate(asic_model, frequency_mhz) ==
    IF asic_model = "" \/ frequency_mhz <= 0 THEN 0
    ELSE IF asic_model \notin DOMAIN SPECS THEN estimate_from_frequency(frequency_mhz)
    ELSE LET base_freq == SPECS[asic_model][1]
             base_hashrate == SPECS[asic_model][2]
             expected_gh == (base_hashrate * frequency_mhz) \div base_freq
         IN  IF expected_gh > 0 THEN expected_gh ELSE 0

\* MetricsCollector.expected_hashrates: manual overrides, miner name -> expected GH/s
expected_hashrates == [M2 |-> 1100]

\* what BitaxeAPI.get_system_info can give collect_miner_metrics:
\*   "none"  - a RequestException was caught, None is returned
\*   "empty" - the miner answered with an empty JSON object
\*   "raise" - an exception that is not a RequestException propagates
\*   "data"  - the system info dict
FetchOutcomes == {"none", "empty", "raise", "data"}

SystemData ==
    { [hashRate |-> 1200, ASICModel |-> "BM1370", frequency |-> 600, coreVoltageActual |-> 1200],
      [hashRate |-> 1000, ASICModel |-> "", frequency |-> 600, coreVoltageActual |-> 1150] }

PollDeltas == {30, 630}

MaxPolls == 3

VarianceWindows == {60, 300, 600}

\* MetricsCollector._create_offline_metrics
create_offline_metrics(miner_name, timestamp) ==
    [status |-> "OFFLINE", miner_name |-> miner_name, timestamp |-> IsoFormat(timestamp),
     hashrate_gh |-> 0, expected_hashrate_gh |-> 0, hashrate_efficiency_pct |-> Whole(0),
     core_voltage_actual_v |-> Whole(0),
     hashrate_variance |-> [w \in VarianceWindows |-> None],
     hashrate_stddev |-> [w \in VarianceWindows |-> None],
     hashrate_positive_variance |-> [w \in VarianceWindows |-> None],
     hashrate_negative_variance |-> [w \in VarianceWindows |-> None],
     hashrate_avg_deviation |-> [w \in VarianceWindows |-> None]]

\* MetricsCollector._parse_system_data
parse_system_data(miner_name, timestamp, data) ==
    LET hashrate_gh == data.hashRate
        expected_hashrate_gh ==
            IF miner_name \in DOMAIN expected_hashrates
            THEN expected_hashrates[miner_name]
            ELSE calculate_expected_hashrate(data.ASICModel, data.frequency)
    IN  [create_offline_metrics(miner_name, timestamp) EXCEPT
            !.status = "ONLINE",
            !.hashrate_gh = hashrate_gh,
            !.expected_hashrate_gh = expected_hashrate_gh,
            !.hashrate_efficiency_pct =
                IF expected_hashrate_gh > 0
                THEN Rat(hashrate_gh * 100, expected_hashrate_gh) ELSE Whole(0),
            !.core_voltage_actual_v = Rat(data.coreVoltageActual, 1000)]

\* the metrics before the variance fields are filled in: offline unless data arrived
FetchedMetrics(miner_name, timestamp, outcome, data) ==
    IF outcome = "data"
    THEN parse_system_data(miner_name, timestamp, data)
    ELSE create_offline_metrics(miner_name, timestamp)

\* a collector that records a zero-hashrate sample for a miner it could not reach
CollectHistoryZero(h, miner_name, timestamp, outcome, data) ==
    LET m == FetchedMetrics(miner_name, timestamp, outcome, data)
    IN  AfterAdd(h, miner_name,
                 Sample(timestamp, m.hashrate_gh, m.hashrate_efficiency_pct,
                        m.core_voltage_actual_v, m.expected_hashrate_gh))

\* self.hashrate_history.history after collect_miner_metrics
CollectHistory(h, miner_name, timestamp, outcome, data) ==
    LET m == FetchedMetrics(miner_name, timestamp, outcome, data)
    IN  IF outcome # "data" THEN h
        ELSE IF m.status = "ONLINE"
        THEN AfterAdd(h, miner_name,
                      Sample(timestamp, m.hashrate_gh, m.hashrate_efficiency_pct,
                             m.core_voltage_actual_v, m.expected_hashrate_gh))
        ELSE h

\* the MinerMetrics of one worker of collect_all_metrics: what collect_miner_metrics
\* returns, or the offline metrics made when it raised; h is the history afterwards
CollectedMetrics(h, miner_name, timestamp, outcome, data) ==
    LET m == FetchedMetrics(miner_name, timestamp, outcome, data)
    IN  IF m.status # "ONLINE" THEN m
        ELSE [m EXCEPT
                !.hashrate_variance =
                    [w \in VarianceWindows |-> calculate_variance(h, miner_name, w)],
                !.hashrate_stddev =
                    [w \in VarianceWindows |-> calculate_std_dev(h, miner_name, w)],
                !.hashrate_positive_variance =
                    [w \in VarianceWindows |->
                        calculate_directional_variance(h, miner_name, w)["positive_variance"]],
                !.hashrate_negative_variance =
                    [w \in VarianceWindows |->
                        calculate_directional_variance(h, miner_name, w)["negative_variance"]],
                !.hashrate_avg_deviation =
                    [w \in VarianceWindows |->
                        calculate_directional_variance(h, miner_name, w)["avg_deviation"]]]

\* one CSV cell of MinerMetrics.to_dict: the number, or '' for None
CsvCell(v) == [blank |-> v.isNone, value |-> v]

\* MinerMetrics.to_dict, its variance and standard-deviation columns
to_dict(miner) ==
    [hashrate_variance |-> [w \in VarianceWindows |-> CsvCell(miner.hashrate_variance[w])],
     hashrate_stddev |-> [w \in VarianceWindows |-> CsvCell(miner.hashrate_stddev[w])],
     hashrate_positive_variance |->
         [w \in VarianceWindows |-> CsvCell(miner.hashrate_positive_variance[w])],
     hashrate_negative_variance |->
         [w \in VarianceWindows |-> CsvCell(miner.hashrate_negative_variance[w])],
     hashrate_avg_deviation |->
         [w \in VarianceWindows |-> CsvCell(miner.hashrate_avg_deviation[w])]]

\* MinerMetrics.to_web_dict, its standard-deviation fields
to_web_dict(miner) ==
    [hashrate_stddev |->
        [w \in VarianceWindows |->
            IF ~miner.hashrate_stddev[w].isNone
            THEN Round1(miner.hashrate_stddev[w]) ELSE None]]

\* x or 0
OrZero(x) == IF Truthy(x) THEN x ELSE Whole(0)

\* GET /api/variance/summary: the variance_60s/300s/600s fields of the summary of
\* one ONLINE miner
api_variance_summary(miner) ==
    [variance |-> [w \in VarianceWindows |-> Round1(OrZero(miner.hashrate_stddev[w]))]]

collect_miner_metrics(miner_name, delta, outcome, data) ==
    /\ polls < MaxPolls
    /\ now' = now + delta
    /\ polls' = polls + 1
    /\ poll' = [miner |-> miner_name, outcome |-> outcome]
    /\ history' = CollectHistory(history, miner_name, now', outcome, data)
    /\ inOrder' = [m \in DOMAIN history' |-> TRUE]
    /\ adds' = IF history' # history THEN adds + 1 ELSE adds
    /\ metrics' = CollectedMetrics(history', miner_name, now', outcome, data)
    /\ UNCHANGED <<result, concVars, scoreVars, tickVars, auxVars>>

----------------------------------------------------------------------------
(* Specification: the poller polls one miner after another; every fetch may   *)
(* fail in each of the ways above.                                            *)

CollectMinerMetrics ==
    \E m \in Miners, delta \in PollDeltas, outcome \in FetchOutcomes, data \in SystemData :
        collect_miner_metrics(m, delta, outcome, data)

NextPoll == CollectMinerMetrics

SpecPoll == Init /\ [][NextPoll]_vars

----------------------------------------------------------------------------
(* MultiBitaxeMonitor.run_monitor and MetricsCollector.collect_all_metrics:   *)
(* the main thread loops over ticks; in each tick a fresh ThreadPoolExecutor  *)
(* gets one collect_miner_metrics task per configured miner, the results are  *)
(* gathered as they complete, sorted by miner name and stored as              *)
(* latest_metrics; then the loop sleeps for the poll interval.                *)

poll_interval == 60

MaxTicks == 2

\* the miner lists run_monitor may be configured with (MINER_NAMES is split on
\* commas and nothing checks that the names differ)
Configs == { <<"M1", "M2">>, <<"M2", "M1">>, <<"M1", "M1">> }

TickOutcomes == {"none", "raise", "data"}

TickData ==
    { [hashRate |-> 1200, ASICModel |-> "BM1370", frequency |-> 600, coreVoltageActual |-> 1200] }

\* the order of miner names under sorted(..., key=lambda x: x.miner_name)
NameRank == [M1 |-> 1, M2 |-> 2]

\* xs with x inserted behind the elements whose name does not sort after x's
RECURSIVE InsertByName(_, _)
InsertByName(xs, x) ==
    IF xs = <<>> THEN <<x>>
    ELSE IF NameRank[Head(xs).miner_name] <= NameRank[x.miner_name]
    THEN <<Head(xs)>> \o InsertByName(Tail(xs), x)
    ELSE <<x>> \o xs

\* the list left in the order in which the futures completed
CompletionOrder(xs) == xs

\* sorted(all_metrics, key=lambda x: x.miner_name): a stable sort
RECURSIVE SortByName(_)
SortByName(xs) ==
    IF xs = <<>> THEN <<>>
    ELSE InsertByName(SortByName(SubSeq(xs, 1, Len(xs) - 1)), xs[Len(xs)])

\* a loop that goes on without waiting for any worker
NoneAwaited == TRUE

\* the for loop over as_completed(future_to_miner) has ended and the executor's
\* with block has been left: every future has completed and been gathered
AllCollected == \A i \in 1..Len(futures) : futures[i].st = "collected"

\* while True: ... self.collector.collect_all_metrics(self.miners) is entered
RunMonitorTick ==
    /\ tpc = "idle"
    /\ ticks < MaxTicks
    /\ ticks' = ticks + 1
    /\ futures' = <<>>
    /\ all_metrics' = <<>>
    /\ tpc' = "submit"
    /\ UNCHANGED <<engineVars, concVars, pollVars, scoreVars, auxVars, miners, threads, latest_metrics>>

\* executor.submit(self.collect_miner_metrics, miner) for the next miner of the list
ExecutorSubmit ==
    /\ tpc = "submit"
    /\ futures' = Append(futures, [miner |-> miners[Len(futures) + 1],
                                   st |-> "pending", outcome |-> "pending",
                                   result |-> NoMetrics])
    /\ tpc' = IF Len(futures') = Len(miners) THEN "collect" ELSE "submit"
    /\ UNCHANGED <<engineVars, concVars, pollVars, scoreVars, auxVars,
                   miners, ticks, threads, all_metrics, latest_metrics>>

\* a pool thread takes a task and enters collect_miner_metrics: timestamp = datetime.now()
WorkerStart ==
    \E i \in 1..Len(futures) :
        /\ futures[i].st = "pending"
        /\ futures' = [futures EXCEPT ![i].st = "running"]
        /\ threads' = threads \cup {[tick |-> ticks, index |-> i,
                                     miner |-> futures[i].miner, timestamp |-> now]}
        /\ UNCHANGED <<engineVars, concVars, pollVars, scoreVars, auxVars,
                       miners, tpc, ticks, all_metrics, latest_metrics>>

\* the rest of collect_miner_metrics: the fetch, add_sample for an ONLINE miner,
\* the statistics; the future completes with the metrics (or with the exception)
WorkerFinish ==
    \E t \in threads, outcome \in TickOutcomes, data \in TickData :
        LET old == HistoryIndex(history, t.miner)
        IN  /\ history' = CollectHistory(history, t.miner, t.timestamp, outcome, data)
            /\ inOrder' = [m \in DOMAIN history' |->
                              IF m = t.miner /\ history' # history
                              THEN (old = <<>> \/ (inOrder[m] /\ t.timestamp >= Newest(old).ts))
                              ELSE inOrder[m]]
            /\ adds' = IF history' # history THEN adds + 1 ELSE adds
            /\ threads' = threads \ {t}
            /\ futures' = IF t.tick = ticks
                          THEN [futures EXCEPT ![t.index] =
                                   [miner |-> t.miner, st |-> "done", outcome |-> outcome,
                                    result |-> CollectedMetrics(history', t.miner, t.timestamp,
                                                                outcome, data)]]
                          ELSE futures
            /\ UNCHANGED <<result, concVars, pollVars, scoreVars, auxVars,
                           miners, tpc, ticks, all_metrics, latest_metrics>>

\* for future in as_completed(future_to_miner): all_metrics.append(...)
AsCompleted ==
    /\ tpc = "collect"
    /\ \E i \in 1..Len(futures) :
          /\ futures[i].st = "done"
          /\ all_metrics' = Append(all_metrics, futures[i].result)
          /\ futures' = [futures EXCEPT ![i].st = "collected"]
    /\ UNCHANGED <<engineVars, concVars, pollVars, scoreVars, auxVars,
                   miners, tpc, ticks, threads, latest_metrics>>

\* sorted_metrics = sorted(...); with self.metrics_lock: self.latest_metrics = sorted_metrics
StoreLatest ==
    /\ tpc = "collect"
    /\ AllCollected
    /\ latest_metrics' = SortByName(all_metrics)
    /\ tpc' = "sleep"
    /\ UNCHANGED <<engineVars, concVars, pollVars, scoreVars, auxVars,
                   miners, ticks, futures, threads, all_metrics>>

\* time.sleep(sleep_time): the rest of the poll interval passes
Sleep ==
    /\ tpc = "sleep"
    /\ now' = now + poll_interval
    /\ tpc' = "idle"
    /\ UNCHANGED <<engineVars, concVars, polls, poll, metrics, scoreVars, auxVars,
                   miners, ticks, futures, threads, all_metrics, latest_metrics>>

\* GET /api/metrics on the web server's thread: get_latest_metrics copies the
\* list under metrics_lock
GetLatestMetrics ==
    /\ seen' = [called |-> TRUE, metrics |-> latest_metrics]
    /\ UNCHANGED <<engineVars, concVars, pollVars, scoreVars, tickVars,
                   em_state, miners_config, chart_data, em_latest, em_collects,
                   last_daily_summary, tcall, tcalls>>

InitTick ==
    /\ history = <<>>
    /\ inOrder = <<>>
    /\ adds = 0
    /\ result = NoResult
    /\ dstate = <<>>
    /\ wpc = "idle"
    /\ wloc = NoWorker
    /\ rpc = "idle"
    /\ rloc = NoReader
    /\ linear = {}
    /\ now = 0
    /\ polls = 0
    /\ poll = NoPoll
    /\ metrics = NoMetrics
    /\ scoreIn = NoScoreIn
    /\ score = None
    /\ miners \in Configs
    /\ tpc = "idle"
    /\ ticks = 0
    /\ futures = <<>>
    /\ threads = {}
    /\ all_metrics = <<>>
    /\ latest_metrics = <<>>
    /\ seen = NoSeen
    /\ em_state = "none"
    /\ miners_config = <<>>
    /\ chart_data = <<>>
    /\ em_latest = NoFleet
    /\ em_collects = 0
    /\ last_daily_summary = NoDate
    /\ tcall = NoTrackerCall
    /\ tcalls = 0

NextTick ==
    \/ RunMonitorTick
    \/ ExecutorSubmit
    \/ WorkerStart
    \/ WorkerFinish
    \/ AsCompleted
    \/ StoreLatest
    \/ Sleep
    \/ GetLatestMetrics

SpecTick == InitTick /\ [][NextTick]_vars

----------------------------------------------------------------------------
(* VarianceDataStore._calculate_stability_score *)

\* the score without the floor at 0 after the variance penalty
calculate_stability_score_unfloored(positive_var, negative_var, avg_deviation, expected_hashrate) ==
    IF RatLe(expected_hashrate, Whole(0)) THEN Whole(0)
    ELSE LET deviation_pct ==
                 RatMul(RatDiv(RatAbs(avg_deviation), expected_hashrate), Whole(100))
             base_score ==
                 RatMax(Whole(0), RatSub(Whole(100), RatMul(deviation_pct, Whole(2))))
         IN  IF Truthy(positive_var) /\ Truthy(negative_var)
             THEN LET avg_variance == RatDiv(RatAdd(positive_var, negative_var), Whole(2))
                      variance_pct ==
                          RatMul(RatDiv(avg_variance, expected_hashrate), Whole(100))
                      variance_penalty == RatMin(variance_pct, Whole(50))
                  IN  Round1(RatSub(base_score, variance_penalty))
             ELSE Round1(base_score)

calculate_stability_score(positive_var, negative_var, avg_deviation, expected_hashrate) ==
    IF RatLe(expected_hashrate, Whole(0)) THEN Whole(0)
    ELSE LET deviation_pct ==
                 RatMul(RatDiv(RatAbs(avg_deviation), expected_hashrate), Whole(100))
             base_score ==
                 RatMax(Whole(0), RatSub(Whole(100), RatMul(deviation_pct, Whole(2))))
         IN  IF Truthy(positive_var) /\ Truthy(negative_var)
             THEN LET avg_variance == RatDiv(RatAdd(positive_var, negative_var), Whole(2))
                      variance_pct ==
                          RatMul(RatDiv(avg_variance, expected_hashrate), Whole(100))
                      variance_penalty == RatMin(variance_pct, Whole(50))
                  IN  Round1(RatMax(Whole(0), RatSub(base_score, variance_penalty)))
             ELSE Round1(base_score)

----------------------------------------------------------------------------
(* Specification: one _calculate_stability_score call on arguments drawn from *)
(* finite non-negative variances (or None), any deviation, any baseline.      *)

ScoreVariances == {None, Whole(0), Rat(5, 2), Whole(40), Whole(120), Whole(1500)}

ScoreDeviations == {Whole(-700), Whole(-60), Whole(-5), Whole(0), Rat(1, 3), Whole(30)}

ScoreExpected == {Whole(-100), Whole(0), Whole(100), Whole(1200)}

InitScore ==
    /\ history = <<>>
    /\ inOrder = <<>>
    /\ adds = 0
    /\ result = NoResult
    /\ dstate = <<>>
    /\ wpc = "idle"
    /\ wloc = NoWorker
    /\ rpc = "idle"
    /\ rloc = NoReader
    /\ linear = {}
    /\ now = 0
    /\ polls = 0
    /\ poll = NoPoll
    /\ metrics = NoMetrics
    /\ scoreIn \in [positive_var : ScoreVariances, negative_var : ScoreVariances,
                    avg_deviation : ScoreDeviations, expected_hashrate : ScoreExpected]
    /\ score = None
    /\ miners = <<>>
    /\ tpc = "idle"
    /\ ticks = 0
    /\ futures = <<>>
    /\ threads = {}
    /\ all_metrics = <<>>
    /\ latest_metrics = <<>>
    /\ seen = NoSeen
    /\ em_state = "none"
    /\ miners_config = <<>>
    /\ chart_data = <<>>
    /\ em_latest = NoFleet
    /\ em_collects = 0
    /\ last_daily_summary = NoDate
    /\ tcall = NoTrackerCall
    /\ tcalls = 0

CalculateStabilityScore ==
    /\ score.isNone
    /\ score' = calculate_stability_score(scoreIn.positive_var, scoreIn.negative_var,
                                          scoreIn.avg_deviation, scoreIn.expected_hashrate)
    /\ UNCHANGED <<engineVars, concVars, pollVars, scoreIn, tickVars, auxVars>>

NextScore == CalculateStabilityScore

SpecScore == InitScore /\ [][NextScore]_vars

----------------------------------------------------------------------------
(* EnhancedBitAxeMonitor: construction and the sequential fleet collection *)

MaxCollects == 2

\* deque(maxlen=self.max_data_points)
max_data_points == 120

\* the lists of configuration dicts the monitor is constructed with: empty, one
\* entry with and without the optional key, an entry whose ip names no host,
\* two entries, and an entry that lacks the required "name" key
EnhancedRawConfigs ==
    { <<>>,
      <<[name |-> "M1", ip |-> "192.168.1.45"]>>,
      <<[name |-> "M1", ip |-> "invalid.ip.address", expected_hashrate_gh |-> 1200]>>,
      <<[name |-> "M1", ip |-> "192.168.1.45", expected_hashrate_gh |-> 1200],
        [name |-> "M2", ip |-> "192.168.1.46", expected_hashrate_gh |-> 0]>>,
      <<[ip |-> "192.168.1.45"]>> }

\* MinerConfig(**config) raises TypeError unless both required fields are given
ConfigAccepted(config) == {"name", "ip"} \subseteq DOMAIN config

\* MinerConfig(**config): expected_hashrate_gh defaults to 1100
MinerConfig(config) ==
    [name |-> config.name, ip |-> config.ip,
     expected_hashrate_gh |->
         IF "expected_hashrate_gh" \in DOMAIN config THEN config.expected_hashrate_gh
         ELSE 1100]

\* EnhancedBitAxeMonitor.__init__: one MinerConfig per entry of the raw list and
\* one empty chart per configured name; nothing inspects the length of the list
EnhancedBitAxeMonitorInit ==
    /\ em_state = "none"
    /\ \E miners_config_raw \in EnhancedRawConfigs :
          IF \A i \in 1..Len(miners_config_raw) : ConfigAccepted(miners_config_raw[i])
          THEN /\ em_state' = "constructed"
               /\ miners_config' =
                      [i \in 1..Len(miners_config_raw) |-> MinerConfig(miners_config_raw[i])]
               /\ chart_data' =
                      [n \in {miners_config_raw[i].name : i \in 1..Len(miners_config_raw)}
                          |-> <<>>]
          ELSE /\ em_state' = "TypeError"
               /\ UNCHANGED <<miners_config, chart_data>>
    /\ UNCHANGED <<engineVars, concVars, pollVars, scoreVars, tickVars,
                   seen, em_latest, em_collects, last_daily_summary, tcall, tcalls>>

\* what one fetch_miner_data call gives: None after a RequestException, an empty
\* JSON object, a payload whose hashRate is no number, or a payload
EnhancedFetches ==
    { [outcome |-> "none", hashRate |-> 0, power |-> 0],
      [outcome |-> "empty", hashRate |-> 0, power |-> 0],
      [outcome |-> "malformed", hashRate |-> 0, power |-> 15],
      [outcome |-> "data", hashRate |-> 1200, power |-> 15],
      [outcome |-> "data", hashRate |-> 1155, power |-> 14] }

\* deque.append on a deque with maxlen: the oldest element falls out when full
DequeAppend(d, x) ==
    IF Len(d) >= max_data_points THEN Tail(d) \o <<x>> ELSE Append(d, x)

\* the MinerMetrics defaults, with the given status
EnhancedDefaults(miner, status) ==
    [miner_name |-> miner.name, miner_ip |-> miner.ip, status |-> status,
     hashrate_gh |-> 0, hashrate_th |-> Whole(0),
     expected_hashrate_gh |-> miner.expected_hashrate_gh,
     hashrate_efficiency_pct |-> Whole(0), hashrate_stddev_60s |-> Whole(0),
     power_w |-> Whole(0)]

\* parse_miner_metrics: the metrics of one miner and the charts after the call
parse_miner_metrics(miner, raw, charts) ==
    IF raw.outcome \in {"none", "empty"}
    THEN [metrics |-> EnhancedDefaults(miner, "OFFLINE"), charts |-> charts]
    ELSE IF raw.outcome = "malformed"
    THEN [metrics |-> EnhancedDefaults(miner, "PARSE_ERROR"), charts |-> charts]
    ELSE LET hashrates == DequeAppend(charts[miner.name], raw.hashRate)
             n == Len(hashrates)
         IN  [metrics |->
                  [miner_name |-> miner.name, miner_ip |-> miner.ip, status |-> "ONLINE",
                   hashrate_gh |-> raw.hashRate,
                   hashrate_th |-> Rat(raw.hashRate, 1000),
                   expected_hashrate_gh |-> miner.expected_hashrate_gh,
                   hashrate_efficiency_pct |->
                       IF miner.expected_hashrate_gh > 0
                       THEN Rat(raw.hashRate * 100, miner.expected_hashrate_gh)
                       ELSE Whole(0),
                   hashrate_stddev_60s |->
                       IF n >= 2 THEN SampleStdDev(SubSeq(hashrates, n - 1, n))
                       ELSE Whole(0),
                   power_w |-> Whole(raw.power)],
              charts |-> [charts EXCEPT ![miner.name] = hashrates]]

\* the loop body that adds every miner to the totals, whatever its status
AccumulateEvery(acc, entry) ==
    [acc EXCEPT !.miners = Append(@, entry),
                !.total_hashrate_th = RatAdd(@, entry.hashrate_th),
                !.total_power_w = RatAdd(@, entry.power_w),
                !.online_count = @ + 1]

\* the loop body of collect_all_metrics after the parse: the entry is appended,
\* and only an ONLINE miner adds to the totals
Accumulate(acc, entry) ==
    IF entry.status = "ONLINE"
    THEN [acc EXCEPT !.miners = Append(@, entry),
                     !.total_hashrate_th = RatAdd(@, entry.hashrate_th),
                     !.total_power_w = RatAdd(@, entry.power_w),
                     !.online_count = @ + 1]
    ELSE [acc EXCEPT !.miners = Append(@, entry)]

\* the for loop of collect_all_metrics from miner i on; fetched[i] is what the
\* i-th fetch_miner_data call gives
RECURSIVE CollectLoop(_, _, _, _)
CollectLoop(i, config, fetched, acc) ==
    IF i > Len(config) THEN acc
    ELSE LET parsed == parse_miner_metrics(config[i], fetched[i], acc.charts)
         IN  CollectLoop(i + 1, config, fetched,
                         [Accumulate(acc, parsed.metrics) EXCEPT !.charts = parsed.charts])

RECURSIVE SumExpected(_)
SumExpected(config) ==
    IF config = <<>> THEN 0
    ELSE Head(config).expected_hashrate_gh + SumExpected(Tail(config))

\* EnhancedBitAxeMonitor.collect_all_metrics
EnhancedCollectAllMetrics ==
    /\ em_state = "constructed"
    /\ em_collects < MaxCollects
    /\ \E fetched \in [1..Len(miners_config) -> EnhancedFetches] :
          LET acc == CollectLoop(1, miners_config, fetched,
                                 [miners |-> <<>>, total_hashrate_th |-> Whole(0),
                                  total_power_w |-> Whole(0), online_count |-> 0,
                                  charts |-> chart_data])
              total_expected_th == Rat(SumExpected(miners_config), 1000)
          IN  /\ chart_data' = acc.charts
              /\ em_latest' =
                     [collected |-> TRUE,
                      total_hashrate_th |-> acc.total_hashrate_th,
                      total_power_w |-> acc.total_power_w,
                      fleet_efficiency |->
                          IF total_expected_th.num > 0
                          THEN RatMul(RatDiv(acc.total_hashrate_th, total_expected_th),
                                      Whole(100))
                          ELSE Whole(0),
                      online_count |-> acc.online_count,
                      total_count |-> Len(miners_config),
                      miners |-> acc.miners]
    /\ em_collects' = em_collects + 1
    /\ UNCHANGED <<engineVars, concVars, pollVars, scoreVars, tickVars,
                   seen, em_state, miners_config, last_daily_summary, tcall, tcalls>>

NextEnhanced == EnhancedBitAxeMonitorInit \/ EnhancedCollectAllMetrics

SpecEnhanced == Init /\ [][NextEnhanced]_vars

----------------------------------------------------------------------------
(* VarianceTracker: log_miner_variance calls made one after another *)

MaxTrackerCalls == 4

\* timestamp.date() of the calls: three days; a call may carry an earlier day
\* than the call before it
Dates == {1, 2, 3}

\* the dates whose summary has succeeded once the recorded call is over
DoneAfter(call) ==
    IF call.invoked /\ call.summary_ok THEN call.done \cup {call.date} ELSE call.done

\* the recorded call invoked generate_daily_summary for this date and it raised
FailedFor(call, date) == call.invoked /\ ~call.summary_ok /\ call.date = date

\* a log_miner_variance that marks the day before it generates the summary
log_miner_variance_mark_first(date, log_ok, summary_ok) ==
    /\ tcalls < MaxTrackerCalls
    /\ tcalls' = tcalls + 1
    /\ IF ~log_ok
       THEN /\ tcall' = [date |-> date, logged |-> FALSE, invoked |-> FALSE,
                         summary_ok |-> FALSE, propagated |-> TRUE,
                         before |-> last_daily_summary, done |-> DoneAfter(tcall),
                         after_failure |-> FailedFor(tcall, date)]
            /\ UNCHANGED last_daily_summary
       ELSE IF last_daily_summary # date
       THEN /\ tcall' = [date |-> date, logged |-> TRUE, invoked |-> TRUE,
                         summary_ok |-> summary_ok, propagated |-> FALSE,
                         before |-> last_daily_summary, done |-> DoneAfter(tcall),
                         after_failure |-> FailedFor(tcall, date)]
            /\ last_daily_summary' = date
       ELSE /\ tcall' = [date |-> date, logged |-> TRUE, invoked |-> FALSE,
                         summary_ok |-> FALSE, propagated |-> FALSE,
                         before |-> last_daily_summary, done |-> DoneAfter(tcall),
                         after_failure |-> FailedFor(tcall, date)]
            /\ UNCHANGED last_daily_summary
    /\ UNCHANGED <<engineVars, concVars, pollVars, scoreVars, tickVars,
                   seen, em_state, miners_config, chart_data, em_latest, em_collects>>

\* VarianceTracker.log_miner_variance for a timestamp of the given date.
\* log_variance_data runs first, outside the try: if it raises (log_ok false),
\* the exception leaves the method. Otherwise, when the date differs from
\* last_daily_summary, generate_daily_summary is called inside try/except
\* Exception; last_daily_summary is assigned after it returned.
log_miner_variance(date, log_ok, summary_ok) ==
    /\ tcalls < MaxTrackerCalls
    /\ tcalls' = tcalls + 1
    /\ IF ~log_ok
       THEN /\ tcall' = [date |-> date, logged |-> FALSE, invoked |-> FALSE,
                         summary_ok |-> FALSE, propagated |-> TRUE,
                         before |-> last_daily_summary, done |-> DoneAfter(tcall),
                         after_failure |-> FailedFor(tcall, date)]
            /\ UNCHANGED last_daily_summary
       ELSE IF last_daily_summary # date
       THEN /\ tcall' = [date |-> date, logged |-> TRUE, invoked |-> TRUE,
                         summary_ok |-> summary_ok, propagated |-> FALSE,
                         before |-> last_daily_summary, done |-> DoneAfter(tcall),
                         after_failure |-> FailedFor(tcall, date)]
            /\ last_daily_summary' = IF summary_ok THEN date ELSE last_daily_summary
       ELSE /\ tcall' = [date |-> date, logged |-> TRUE, invoked |-> FALSE,
                         summary_ok |-> FALSE, propagated |-> FALSE,
                         before |-> last_daily_summary, done |-> DoneAfter(tcall),
                         after_failure |-> FailedFor(tcall, date)]
            /\ UNCHANGED last_daily_summary
    /\ UNCHANGED <<engineVars, concVars, pollVars, scoreVars, tickVars,
                   seen, em_state, miners_config, chart_data, em_latest, em_collects>>

LogMinerVariance ==
    \E date \in Dates, log_ok \in BOOLEAN, summary_ok \in BOOLEAN :
        log_miner_variance(date, log_ok, summary_ok)

NextTracker == LogMinerVariance

SpecTracker == Init /\ [][NextTracker]_vars

----------------------------------------------------------------------------
(* Properties of the engine under Spec *)

\* positions of buf whose timestamp is within window_seconds of the newest sample
PositionsInWindow(buf, window_seconds) ==
    {i \in 1..Len(buf) : buf[i].ts >= Newest(buf).ts - window_seconds}

\* number of samples of miner m inside the window (0 without a buffer)
CountInWindow(m, w) ==
    IF m \in DOMAIN history THEN Cardinality(PositionsInWindow(history[m], w)) ELSE 0

\* C1: after every add_sample on a miner fed non-decreasing timestamps, every
\* sample left in its buffer has timestamp >= (timestamp just added) - 600.
C1_MonotonicEviction ==
    \A m \in DOMAIN history :
        inOrder[m] =>
            \A i \in 1..Len(history[m]) :
                history[m][i].ts >= Newest(history[m]).ts - 600

\* an in-order miner whose buffer has lost samples to eviction
C1_Witness ==
    \E m \in DOMAIN history :
        /\ DOMAIN history = {m}
        /\ inOrder[m]
        /\ adds >= 2
        /\ Len(history[m]) < adds

\* C2: calculate_variance and calculate_std_dev return None when the window
\* holds 0 or 1 samples and a number when it holds 2 or more.
C2_NullBelowThreshold ==
    \A m \in Miners, w \in Windows :
        LET n == CountInWindow(m, w)
            v == calculate_variance(history, m, w)
            sd == calculate_std_dev(history, m, w)
        IN  /\ n < 2 => (v = None /\ sd = None)
            /\ n >= 2 => (~v.isNone /\ ~sd.isNone)

\* both cases at once: a window with one sample and a window with two
C2_Witness ==
    \E m \in Miners :
        /\ CountInWindow(m, 60) = 1
        /\ CountInWindow(m, 600) >= 2

\* hashrates inside the window of miner m, in buffer order
WindowValues(m, w) ==
    LET buf == history[m]
        q == SelectSeq(buf, LAMBDA s : s.ts >= Newest(buf).ts - w)
    IN  [i \in 1..Len(q) |-> q[i].hashrate]

\* n*n times the sum of squared differences from the mean: sum((n*x - sum(xs))^2)
RECURSIVE ScaledSquares(_, _, _)
ScaledSquares(xs, n, total) ==
    IF xs = <<>> THEN 0
    ELSE (n * Head(xs) - total) * (n * Head(xs) - total) + ScaledSquares(Tail(xs), n, total)

\* v is sum((x - mean)^2) / divisor over xs, with n = Len(xs)
IsSquaresOver(v, xs, divisor) ==
    LET n == Len(xs)
    IN  /\ ~v.isNone
        /\ v.num * (n * n * divisor) = v.den * ScaledSquares(xs, n, SumSeq(xs))

\* C3 as stated: the plain variance is the population variance (divide by n),
\* 6.25 and 2.5 for the samples 1200, 1205.
C3_PopulationVariance ==
    \A m \in DOMAIN history, w \in Windows :
        LET xs == WindowValues(m, w)
        IN  Len(xs) >= 2 => IsSquaresOver(calculate_variance(history, m, w), xs, Len(xs))

\* C3 amended: the plain variance is the sample variance (divide by n - 1);
\* the samples 1200, 1205 give 12.5, and a standard deviation of 3.5 to one decimal.
C3_SampleVariance ==
    \A m \in DOMAIN history, w \in Windows :
        LET xs == WindowValues(m, w)
        IN  /\ Len(xs) >= 2 =>
                IsSquaresOver(calculate_variance(history, m, w), xs, Len(xs) - 1)
            /\ xs = <<1200, 1205>> =>
                /\ calculate_variance(history, m, w) = Rat(25, 2)
                /\ calculate_std_dev(history, m, w) = Rat(35, 10)

\* the samples 1200 then 1205 inside a 60 s window
C3_Witness ==
    \E m \in DOMAIN history : WindowValues(m, 60) = <<1200, 1205>>

\* the set of samples of s
Range(s) == {s[i] : i \in 1..Len(s)}

\* C6: for W1 <= W2 the count for W1 is at most the count for W2 and the
\* samples counted for W1 are among those counted for W2.
C6_WindowContainment ==
    \A m \in Miners, W1 \in Windows, W2 \in Windows :
        W1 <= W2 =>
            /\ get_sample_count(history, m, W1) <= get_sample_count(history, m, W2)
            /\ m \in DOMAIN history =>
                   Range(InWindow(history[m], W1)) \subseteq Range(InWindow(history[m], W2))

\* a buffer on which a smaller window counts strictly fewer samples
C6_Witness ==
    \E m \in DOMAIN history :
        /\ get_sample_count(history, m, 60) >= 1
        /\ get_sample_count(history, m, 60) < get_sample_count(history, m, 600)

DirectionalKeys ==
    {"positive_variance", "negative_variance", "avg_deviation",
     "positive_count", "negative_count", "total_samples"}

\* a value that is null or zero
NullOrZero(v) == v.isNone \/ v.num = 0

\* C7: for a miner never passed to add_sample, get_sample_count is 0, the
\* variance and standard deviation are None and every field of the
\* directional result is null (or absent) or zero.
C7_UnknownMinerEmpty ==
    \A m \in Miners \ DOMAIN history, w \in Windows :
        /\ get_sample_count(history, m, w) = 0
        /\ calculate_variance(history, m, w) = None
        /\ calculate_std_dev(history, m, w) = None
        /\ LET d == calculate_directional_variance(history, m, w)
           IN  \A k \in DirectionalKeys : k \in DOMAIN d => NullOrZero(d[k])

\* one miner has a buffer with data for every query, the other was never recorded
C7_Witness ==
    \E m \in Miners, k \in DOMAIN history :
        /\ m \notin DOMAIN history
        /\ Len(history[k]) >= 2
        /\ ~calculate_variance(history, k, 600).isNone

----------------------------------------------------------------------------
(* Properties of the queries under SpecQuery *)

\* C4: a query leaves every buffer and the set of miners that have a buffer
\* unchanged, and repeating the previous query with no add_sample in between
\* returns the same value.
C4_QueriesReadOnly ==
    [][QueryStep =>
          /\ history' = history
          /\ (/\ result'.op = result.op
              /\ result'.miner = result.miner
              /\ result'.window = result.window) => result'.value = result.value]_vars

\* a query was made on a miner that has no buffer while another miner has one
C4_Witness ==
    /\ result.op # "none"
    /\ result.miner \notin DOMAIN history
    /\ DOMAIN history # {}

----------------------------------------------------------------------------
(* Properties of concurrent access under SpecConc *)

\* C5: a get_history_data that overlaps an add_sample of the same miner
\* completes without error and returns the result for the buffer as it was
\* entirely before or entirely after that add_sample.
C5_NoRace ==
    /\ rpc # "error"
    /\ rpc = "done" => rloc.data \in linear

----------------------------------------------------------------------------
(* Properties of the poller under SpecPoll *)

\* C8: a poll that gets no system data, or whose fetch fails, or whose metrics
\* are not ONLINE leaves every history buffer exactly as it was.
C8_OfflineNotRecorded ==
    [][(poll'.outcome \in {"none", "empty", "raise"} \/ metrics'.status # "ONLINE")
          => history' = history]_vars

\* a failed poll of a miner that has samples from an earlier, successful poll
C8_Witness ==
    /\ poll.outcome \in {"none", "empty", "raise"}
    /\ metrics.status = "OFFLINE"
    /\ poll.miner \in DOMAIN history
    /\ polls >= 2

----------------------------------------------------------------------------
(* Properties of the stability score under SpecScore *)

\* C9: the stability score lies in [0, 100], and is 0 when expected_hashrate <= 0.
C9_ScoreBounds ==
    ~score.isNone =>
        /\ RatLe(Whole(0), score)
        /\ RatLe(score, Whole(100))
        /\ RatLe(scoreIn.expected_hashrate, Whole(0)) => score = Whole(0)

\* a score of 0 reached through the variance penalty on a positive baseline
C9_Witness ==
    /\ ~score.isNone
    /\ scoreIn.expected_hashrate = Whole(100)
    /\ scoreIn.avg_deviation = Whole(-60)
    /\ scoreIn.positive_var = Whole(40)
    /\ scoreIn.negative_var = Whole(40)
    /\ score = Whole(0)

\* base = max(0, 100 - 2 * |avg_deviation| / expected * 100)
ClaimedBase ==
    RatMax(Whole(0),
           RatSub(Whole(100),
                  RatDiv(RatMul(Whole(200), RatAbs(scoreIn.avg_deviation)),
                         scoreIn.expected_hashrate)))

\* avg_variance_pct = ((positive_variance + negative_variance) / 2) / expected * 100
ClaimedVariancePct ==
    RatDiv(RatMul(Whole(50), RatAdd(scoreIn.positive_var, scoreIn.negative_var)),
           scoreIn.expected_hashrate)

\* C10: for expected_hashrate > 0 and both variances non-null (0 included) the
\* score is max(0, base - min(avg_variance_pct, 50)) rounded to one decimal;
\* when either variance is null the score is base.
C10_ScoreFormula ==
    (~score.isNone /\ ~RatLe(scoreIn.expected_hashrate, Whole(0))) =>
        IF ~scoreIn.positive_var.isNone /\ ~scoreIn.negative_var.isNone
        THEN score = Round1(RatMax(Whole(0),
                                   RatSub(ClaimedBase, RatMin(ClaimedVariancePct, Whole(50)))))
        ELSE score = Round1(ClaimedBase)

----------------------------------------------------------------------------
(* Properties of the directional statistics under Spec *)

\* positions of miner m's buffer inside the window whose sample has a baseline
QualifyingPositions(m, w) ==
    IF m \in DOMAIN history
    THEN {i \in PositionsInWindow(history[m], w) : history[m][i].expected > 0}
    ELSE {}

\* C11: calculate_directional_variance returns null for all of its fields when
\* fewer than 2 in-window samples have expected_hashrate > 0, and otherwise a
\* non-null avg_deviation with positive_count + negative_count = total_samples.
C11_DirectionalThreshold ==
    \A m \in Miners, w \in Windows :
        LET n == Cardinality(QualifyingPositions(m, w))
            d == calculate_directional_variance(history, m, w)
        IN  /\ n < 2 => \A k \in DOMAIN d : d[k] = None
            /\ n >= 2 =>
                  /\ DOMAIN d = DirectionalKeys
                  /\ ~d["avg_deviation"].isNone
                  /\ ~d["positive_count"].isNone
                  /\ ~d["negative_count"].isNone
                  /\ d["total_samples"] = Whole(n)
                  /\ RatAdd(d["positive_count"], d["negative_count"]) = d["total_samples"]

\* a 60 s window holding two samples of which only one has a baseline, inside
\* a 600 s window holding two samples with a baseline
C11_Witness ==
    \E m \in Miners :
        /\ CountInWindow(m, 60) = 2
        /\ Cardinality(QualifyingPositions(m, 60)) = 1
        /\ Cardinality(QualifyingPositions(m, 600)) = 2

\* hashrate - expected of the in-window samples of miner m that have a baseline
WindowDeviations(m, w) ==
    LET buf == history[m]
        q == SelectSeq(buf, LAMBDA s : s.ts >= Newest(buf).ts - w /\ s.expected > 0)
    IN  [i \in 1..Len(q) |-> q[i].hashrate - q[i].expected]

\* v is the sample standard deviation of xs (two or more values) to one decimal
\* place, rounded down: v = r / 10 with (r/10)^2 <= sum((x - mean)^2)/(n - 1) < ((r+1)/10)^2
IsSampleStdDevOf(v, xs) ==
    LET n == Len(xs)
        squares == ScaledSquares(xs, n, SumSeq(xs))
        r == (v.num * 10) \div v.den
    IN  /\ ~v.isNone
        /\ v.num >= 0
        /\ r * v.den = v.num * 10
        /\ r * r * n * n * (n - 1) <= 100 * squares
        /\ 100 * squares < (r + 1) * (r + 1) * n * n * (n - 1)

\* C12: over a window with two or more qualifying deviations, if all are >= 0
\* then negative_count is 0, negative_variance is null and positive_variance is
\* their sample standard deviation; if all equal -d for one deficit d > 0 then
\* positive_count = 0, negative_count = n, avg_deviation = -d, positive_variance
\* is null and negative_variance = 0.
C12_OneSidedDeviations ==
    \A m \in DOMAIN history, w \in Windows :
        LET xs == WindowDeviations(m, w)
            n == Len(xs)
            d == calculate_directional_variance(history, m, w)
        IN  n >= 2 =>
              /\ (\A i \in 1..n : xs[i] >= 0) =>
                    /\ d["negative_count"] = Whole(0)
                    /\ d["negative_variance"] = None
                    /\ d["positive_count"] = Whole(n)
                    /\ IsSampleStdDevOf(d["positive_variance"], xs)
              /\ (xs[1] < 0 /\ \A i \in 1..n : xs[i] = xs[1]) =>
                    /\ d["positive_count"] = Whole(0)
                    /\ d["negative_count"] = Whole(n)
                    /\ d["avg_deviation"] = Whole(xs[1])
                    /\ d["positive_variance"] = None
                    /\ d["negative_variance"] = Whole(0)

\* three samples 200 GH/s under their baseline inside the 600 s window, the two
\* newest inside the 60 s window
C12_Witness ==
    \E m \in DOMAIN history :
        /\ WindowDeviations(m, 600) = <<-200, -200, -200>>
        /\ WindowDeviations(m, 60) = <<-200, -200>>

----------------------------------------------------------------------------
(* Properties of what callers are handed, under SpecPoll *)

\* C13: when a window of the miner just polled holds fewer than 2 samples, the
\* variance and standard deviation of that window are null or absent, never 0,
\* in the metrics object, in to_dict, in to_web_dict and in the
\* /api/variance/summary response.
C13_InsufficientNeverZero ==
    metrics.status = "ONLINE" =>
        \A w \in VarianceWindows :
            CountInWindow(poll.miner, w) < 2 =>
                /\ metrics.hashrate_variance[w] = None
                /\ metrics.hashrate_stddev[w] = None
                /\ to_dict(metrics).hashrate_variance[w].blank
                /\ to_dict(metrics).hashrate_stddev[w].blank
                /\ to_web_dict(metrics).hashrate_stddev[w] = None
                /\ api_variance_summary(metrics).variance[w] = None

----------------------------------------------------------------------------
(* Properties of the queries' arguments under SpecQuery *)

\* C14: calculate_variance, calculate_directional_variance and get_sample_count
\* never return normally for window_seconds <= 0: no call of theirs with such
\* a window completes with a return value.
C14_NonPositiveWindowRaises ==
    ~(/\ result.op \in {"calculate_variance", "calculate_directional_variance",
                        "get_sample_count"}
      /\ result.window <= 0)

----------------------------------------------------------------------------
(* Properties of the buffers under Spec *)

\* the clock readings that lie inside the retention horizon ending at newest
HorizonReadings(newest) ==
    {t \in Times : newest - max_history_seconds <= t /\ t <= newest}

\* C15: for a miner fed non-decreasing timestamps the buffer length never
\* exceeds a bound that depends on the retention horizon alone and not on the
\* number of calls: the number of clock readings one horizon spans.
C15_HorizonBoundedBuffer ==
    \A m \in DOMAIN history :
        (inOrder[m] /\ history[m] # <<>>) =>
            Len(history[m]) <= Cardinality(HorizonReadings(Newest(history[m]).ts))

----------------------------------------------------------------------------
(* Properties of the poll loop under SpecTick *)

\* no two pool threads are inside collect_miner_metrics for the same miner name
NoTwoInFlight == \A a \in threads, b \in threads : a.miner = b.miner => a = b

\* the configured miner names are pairwise different
DistinctNames ==
    \A i \in 1..Len(miners), j \in 1..Len(miners) : miners[i] = miners[j] => i = j

\* C16 as stated: in every run of the poll loop at most one
\* collect_miner_metrics for a given miner name executes at a time.
C16_OnePollPerName == NoTwoInFlight

\* C16 amended: when the configured miner names are pairwise different, at
\* most one collect_miner_metrics for a given miner name executes at a time.
C16_OnePollPerDistinctName == DistinctNames => NoTwoInFlight

\* second tick of a two-miner configuration: both workers in flight at once,
\* each miner already holding the sample of the first tick
C16_Witness ==
    /\ DistinctNames
    /\ ticks = 2
    /\ Cardinality(threads) = 2
    /\ \A i \in 1..Len(miners) :
          miners[i] \in DOMAIN history /\ history[miners[i]] # <<>>

----------------------------------------------------------------------------
(* Properties of the buffer order under Spec *)

\* buf holds its samples in non-decreasing timestamp order
Sorted(buf) == \A i \in 1..Len(buf), j \in 1..Len(buf) : i <= j => buf[i].ts <= buf[j].ts

\* C17 as stated: in every reachable state each miner's buffer holds its
\* samples in non-decreasing timestamp order.
C17_AlwaysSorted == \A m \in DOMAIN history : Sorted(history[m])

\* C17 amended: the buffer of a miner whose add_sample calls had non-decreasing
\* timestamps holds its samples in non-decreasing timestamp order.
C17_SortedWhenFedInOrder == \A m \in DOMAIN history : inOrder[m] => Sorted(history[m])

\* three in-order calls on one miner, the oldest sample evicted, two samples
\* with different timestamps left
C17_Witness ==
    \E m \in DOMAIN history :
        /\ inOrder[m]
        /\ adds = 3
        /\ Len(history[m]) = 2
        /\ history[m][1].ts < history[m][2].ts

----------------------------------------------------------------------------
(* Properties of the window's reference point under SpecPoll *)

\* C18: get_sample_count is 0 for a miner without samples; right after a poll
\* has added a sample with timestamp T it is the number of buffered samples
\* with timestamp >= T - W; and it stays the same for as long as the miner's
\* buffer does, however far the wall clock moves on.
C18_CountFromNewestSample ==
    [][/\ \A m \in Miners \ DOMAIN history', w \in Windows :
             get_sample_count(history', m, w) = 0
       /\ history' # history =>
             \A w \in Windows :
                 LET buf == history'[poll'.miner]
                 IN  get_sample_count(history', poll'.miner, w) =
                         Cardinality({i \in 1..Len(buf) : buf[i].ts >= now' - w})
       /\ \A m \in DOMAIN history, w \in Windows :
             history'[m] = history[m] =>
                 get_sample_count(history', m, w) = get_sample_count(history, m, w)]_vars

\* a failed poll has moved the wall clock 630 s past a miner's newest sample,
\* whose 60 s window still counts its two samples
C18_Witness ==
    \E m \in DOMAIN history :
        /\ poll.outcome # "data"
        /\ now >= Newest(history[m]).ts + 630
        /\ Len(history[m]) = 2
        /\ get_sample_count(history, m, 60) = 2

----------------------------------------------------------------------------
(* Properties of add_sample under Spec *)

----------------------------------------------------------------------------
(* Properties of the per-miner stores under SpecQuery *)

\* the value every query returns for miner b and window w on the mapping h
QueryResults(h, b, w) ==
    <<calculate_variance(h, b, w), calculate_std_dev(h, b, w),
      calculate_directional_variance(h, b, w), get_sample_count(h, b, w),
      get_history_data(h, b, w)>>

\* C20: no buffer exists at the start; a buffer comes into existence only in
\* an add_sample call for that miner name, which always leaves one, and never
\* goes away again; and add_sample for one miner leaves the buffer and every
\* query result of every other miner unchanged.
C20_PerMinerLazyStores ==
    /\ DOMAIN history = {}
    /\ [][/\ DOMAIN history \subseteq DOMAIN history'
          /\ \A m \in Miners :
                (m \in DOMAIN history' /\ m \notin DOMAIN history) =>
                    \E t \in QueryTimes, s \in QuerySamples :
                        add_sample(m, t, s[1], s[2], s[3], s[4])
          /\ \A m \in Miners, t \in QueryTimes, s \in QuerySamples :
                add_sample(m, t, s[1], s[2], s[3], s[4]) =>
                    /\ m \in DOMAIN history'
                    /\ \A b \in DOMAIN history \ {m} : history'[b] = history[b]
                    /\ \A b \in Miners \ {m}, w \in QueryWindows :
                          QueryResults(history', b, w) = QueryResults(history, b, w)]_vars

\* both miners have a buffer, with different contents, and queries have been
\* made since the last add_sample
C20_Witness ==
    /\ DOMAIN history = Miners
    /\ history["M1"] # history["M2"]
    /\ result.op # "none"

----------------------------------------------------------------------------
(* Properties of samples and their baselines under SpecBaseline *)

\* C21: a sample recorded with expected_hashrate <= 0 is left out of
\* avg_deviation, the two counts and total_samples, but is counted by
\* get_sample_count and enters calculate_variance and calculate_std_dev of the
\* same window, which return a number whenever the window holds 2 samples.
C21_InvalidBaselineLocal ==
    \A m \in DOMAIN history, w \in Windows :
        LET xs == WindowValues(m, w)
            ds == WindowDeviations(m, w)
            d == calculate_directional_variance(history, m, w)
            v == calculate_variance(history, m, w)
        IN  /\ get_sample_count(history, m, w) = Len(xs)
            /\ Len(xs) >= 2 =>
                  /\ IsSquaresOver(v, xs, Len(xs) - 1)
                  /\ ~calculate_std_dev(history, m, w).isNone
            /\ Len(ds) < 2 => \A k \in DOMAIN d : d[k] = None
            /\ Len(ds) >= 2 =>
                  /\ d["total_samples"] = Whole(Len(ds))
                  /\ RatAdd(d["positive_count"], d["negative_count"]) = Whole(Len(ds))
                  /\ d["avg_deviation"] = Rat(SumSeq(ds), Len(ds))

\* a 600 s window of three samples with different hashrates: one has a zero
\* or negative baseline, the other two have a valid one
C21_Witness ==
    \E m \in DOMAIN history :
        /\ Len(WindowValues(m, 600)) = 3
        /\ Len(WindowDeviations(m, 600)) = 2
        /\ \E i \in 1..Len(history[m]) :
              history[m][i].expected < 0 /\ history[m][i].hashrate = 1190
        /\ history[m][1].hashrate # history[m][3].hashrate

----------------------------------------------------------------------------
(* Properties of the enhanced monitor under SpecEnhanced *)

\* C22: constructing EnhancedBitAxeMonitor with an empty configuration list
\* raises ValueError, so no constructed monitor has an empty miners_config;
\* a constructed monitor holds one miner per configuration entry.
C22_EmptyConfigRaises ==
    em_state = "constructed" =>
        /\ miners_config # <<>>
        /\ \A i \in 1..Len(miners_config) : miners_config[i].name \in DOMAIN chart_data

\* the ONLINE entries of a fleet result, in order
OnlineEntries(fleet) == SelectSeq(fleet.miners, LAMBDA e : e.status = "ONLINE")

RECURSIVE SumHashrateGh(_)
SumHashrateGh(entries) ==
    IF entries = <<>> THEN 0 ELSE Head(entries).hashrate_gh + SumHashrateGh(Tail(entries))

RECURSIVE SumPowerW(_)
SumPowerW(entries) ==
    IF entries = <<>> THEN 0 ELSE Head(entries).power_w.num + SumPowerW(Tail(entries))

\* C23: in every result of collect_all_metrics, total_count is the number of
\* configured miners, online_count is the number of entries with status ONLINE
\* (at most total_count), and total_hashrate_th and total_power_w are the sums
\* of hashrate_th and power_w over exactly the ONLINE entries.
C23_FleetAggregatesOnlineOnly ==
    em_latest.collected =>
        LET online == OnlineEntries(em_latest)
        IN  /\ em_latest.total_count = Len(miners_config)
            /\ Len(em_latest.miners) = Len(miners_config)
            /\ \A i \in 1..Len(miners_config) :
                  em_latest.miners[i].miner_name = miners_config[i].name
            /\ em_latest.online_count = Len(online)
            /\ em_latest.online_count <= em_latest.total_count
            /\ em_latest.total_hashrate_th = Rat(SumHashrateGh(online), 1000)
            /\ em_latest.total_power_w = Whole(SumPowerW(online))

\* a two-miner fleet collected with one miner ONLINE and the other not
C23_Witness ==
    /\ em_latest.collected
    /\ em_latest.total_count = 2
    /\ em_latest.online_count = 1
    /\ em_latest.total_hashrate_th = Rat(1155, 1000)
    /\ \E i \in 1..2 : em_latest.miners[i].status = "PARSE_ERROR"

----------------------------------------------------------------------------
(* Properties of eviction, grouping and baselines under SpecBaseline *)

\* C24: with non-decreasing timestamps, add_sample with timestamp t leaves in
\* the buffer exactly the earlier samples whose timestamp is >= t - 600 (one
\* standing exactly on t - 600 included), in their order and unchanged,
\* followed by the new sample; every sample with timestamp < t - 600 is gone.
C24_ExactEviction ==
    [][\A m \in BaselineMiners, t \in Times, s \in BaselineSamples :
          add_sample(m, t, s[1], s[2], s[3], s[4]) =>
              LET old == HistoryIndex(history, m)
              IN  history'[m] =
                      SelectSeq(old, LAMBDA x : ~(x.ts < t - 600))
                          \o <<Sample(t, s[1], s[2], s[3], s[4])>>]_vars

\* three calls at 0, 30 and 630: the sample of time 0 was discarded and the
\* sample of time 30, exactly 600 s old, was kept
C24_Witness ==
    /\ adds = 3
    /\ "M1" \in DOMAIN history
    /\ Len(history["M1"]) = 2
    /\ history["M1"][1].ts = 30
    /\ history["M1"][2].ts = 630

\* the deviations >= 0 of a window, in order
PositiveGroup(m, w) == SelectSeq(WindowDeviations(m, w), LAMBDA x : x >= 0)

\* the absolute values of the deviations < 0 of a window, in order
NegativeGroup(m, w) ==
    LET negs == SelectSeq(WindowDeviations(m, w), LAMBDA x : x < 0)
    IN  [i \in 1..Len(negs) |-> 0 - negs[i]]

\* C25: deviations >= 0 (zero included) form the positive group and the
\* absolute values of deviations < 0 the negative group; each group's
\* variance is the sample standard deviation of that group alone, and is null
\* exactly when the group has fewer than 2 members, whatever the other group holds.
C25_GroupsIndependent ==
    \A m \in DOMAIN history, w \in Windows :
        LET pos == PositiveGroup(m, w)
            neg == NegativeGroup(m, w)
            d == calculate_directional_variance(history, m, w)
        IN  /\ (d["positive_variance"] = None) <=> (Len(pos) < 2)
            /\ (d["negative_variance"] = None) <=> (Len(neg) < 2)
            /\ Len(pos) >= 2 => IsSampleStdDevOf(d["positive_variance"], pos)
            /\ Len(neg) >= 2 => IsSampleStdDevOf(d["negative_variance"], neg)
            /\ Len(pos) + Len(neg) >= 2 =>
                  /\ d["positive_count"] = Whole(Len(pos))
                  /\ d["negative_count"] = Whole(Len(neg))

\* a 600 s window with the positive deviations 0 and 5 and one negative
\* deviation: positive_variance is a number while negative_variance is null
C25_Witness ==
    \E m \in DOMAIN history :
        /\ PositiveGroup(m, 600) \in {<<0, 5>>, <<5, 0>>}
        /\ Len(NegativeGroup(m, 600)) = 1
        /\ ~calculate_directional_variance(history, m, 600)["positive_variance"].isNone
        /\ calculate_directional_variance(history, m, 600)["positive_variance"].num > 0
        /\ calculate_directional_variance(history, m, 600)["negative_variance"] = None

\* the samples of miner m inside the window, in buffer order
WindowSamples(m, w) ==
    SelectSeq(history[m], LAMBDA s : s.ts >= Newest(history[m]).ts - w)

\* C26 as stated: for every retained sample, the deviation get_history_data
\* reports is the sample's hashrate minus the expected_hashrate of its own
\* add_sample call.
C26_OwnBaselineEverySample ==
    \A m \in DOMAIN history, w \in Windows :
        LET samples == WindowSamples(m, w)
            data == get_history_data(history, m, w)
        IN  /\ Len(data) = Len(samples)
            /\ \A i \in 1..Len(samples) :
                  data[i].deviation = samples[i].hashrate - samples[i].expected

\* C26: every sample keeps the baseline it was recorded with. add_sample
\* stores the expected_hashrate of its own call and leaves the baselines of the
\* retained samples alone; for every retained sample recorded with a baseline
\* > 0, the deviation in get_history_data and in calculate_directional_variance
\* is its hashrate minus that baseline, never a later one; a sample recorded
\* with a baseline <= 0 is reported with deviation 0 and its own baseline.
C26_OwnBaselineValidSamples ==
    /\ [](\A m \in DOMAIN history, w \in Windows :
            LET samples == WindowSamples(m, w)
                data == get_history_data(history, m, w)
                ds == WindowDeviations(m, w)
                d == calculate_directional_variance(history, m, w)
            IN  /\ Len(data) = Len(samples)
                /\ \A i \in 1..Len(samples) :
                      /\ data[i].expected_hashrate = samples[i].expected
                      /\ samples[i].expected > 0 =>
                            data[i].deviation = samples[i].hashrate - samples[i].expected
                      /\ samples[i].expected <= 0 => data[i].deviation = 0
                /\ Len(ds) >= 2 =>
                      /\ d["avg_deviation"] = Rat(SumSeq(ds), Len(ds))
                      /\ d["positive_count"] =
                             Whole(Cardinality({i \in 1..Len(ds) : ds[i] >= 0})))
    /\ [][\A m \in BaselineMiners, t \in Times, s \in BaselineSamples :
            add_sample(m, t, s[1], s[2], s[3], s[4]) =>
                LET old == HistoryIndex(history, m)
                    new == history'[m]
                IN  /\ Newest(new).expected = s[4]
                    /\ Newest(new).hashrate = s[1]
                    /\ \A i \in 1..(Len(new) - 1) :
                          new[i] = old[i + Len(old) + 1 - Len(new)]]_vars

\* a 600 s window whose older sample was recorded against 1200 GH/s and whose
\* newest against 1100 GH/s: the older one is still measured against 1200
C26_Witness ==
    \E m \in DOMAIN history :
        /\ Len(history[m]) >= 2
        /\ history[m][1].expected = 1200
        /\ history[m][1].hashrate = 1205
        /\ Newest(history[m]).expected = 1100
        /\ get_history_data(history, m, 600)[1].deviation = 5
        /\ ~calculate_directional_variance(history, m, 600)["avg_deviation"].isNone

\* C28: with non-decreasing timestamps, after every add_sample the whole
\* buffer lies inside the 600 s window: get_sample_count(m, 600) is the buffer
\* length, and every window of 600 s or more gives the same count.
C28_BufferInsideHorizon ==
    \A m \in DOMAIN history :
        /\ get_sample_count(history, m, 600) = Len(history[m])
        /\ \A w \in Windows :
              w >= 600 => get_sample_count(history, m, w) = get_sample_count(history, m, 600)

\* after three calls one sample was evicted, and the 600 s and the 700 s
\* window both count the two samples that are left
C28_Witness ==
    \E m \in DOMAIN history :
        /\ adds = 3
        /\ get_sample_count(history, m, 600) = 2
        /\ get_sample_count(history, m, 700) = 2
        /\ Newest(history[m]).ts - history[m][1].ts > 0

----------------------------------------------------------------------------
(* Properties of the buffer between append and eviction under SpecWriter *)

\* C27: with non-decreasing timestamps, while add_sample has appended the new
\* sample but has not finished evicting, count, variance and directional
\* result read from the buffer for any window W <= 600 s are those read after
\* add_sample has finished: the samples awaiting eviction are older than
\* newest - 600 s and outside every such window.
C27_PendingEvictionInvisible ==
    wpc \in {"test", "pop"} =>
        LET m == wloc.miner
            after == AfterAdd(wloc.before, m, wloc.sample)
        IN  \A w \in Windows :
               w <= max_history_seconds =>
                  /\ get_sample_count(history, m, w) = get_sample_count(after, m, w)
                  /\ calculate_variance(history, m, w) = calculate_variance(after, m, w)
                  /\ calculate_directional_variance(history, m, w) =
                         calculate_directional_variance(after, m, w)

\* the sample of time 630 was appended behind those of time 0 and 30; the one
\* of time 0 is about to be popped, and the 600 s window already counts two
C27_Witness ==
    /\ wpc = "pop"
    /\ Len(history[wloc.miner]) = 3
    /\ history[wloc.miner][1].ts < wloc.cutoff_time
    /\ get_sample_count(history, wloc.miner, 600) = 2
    /\ Len(AfterAdd(wloc.before, wloc.miner, wloc.sample)[wloc.miner]) = 2
    /\ get_sample_count(history, wloc.miner, 700) = 3

----------------------------------------------------------------------------
(* Properties of the published metrics under SpecTick *)

\* number of positions of xs at which P holds
CountWhere(xs, P(_)) == Cardinality({i \in 1..Len(xs) : P(xs[i])})

\* list is the result of one whole collect_all_metrics call: one entry per
\* configured miner, in miner-name order, all made in the same tick
IsWholeTick(list) ==
    /\ Len(list) = Len(miners)
    /\ \A n \in DOMAIN NameRank :
          CountWhere(list, LAMBDA e : e.miner_name = n) = CountWhere(miners, LAMBDA c : c = n)
    /\ \A i \in 1..(Len(list) - 1) :
          NameRank[list[i].miner_name] <= NameRank[list[i + 1].miner_name]
    /\ \A i, j \in 1..Len(list) : list[i].timestamp = list[j].timestamp

\* C29: get_latest_metrics returns the empty list (before the first tick has
\* completed) or the whole result of one collect_all_metrics call: one entry
\* per configured miner, sorted by miner name, with an OFFLINE entry for every
\* miner whose fetch failed or whose worker raised. A reader running during a
\* tick never gets a partly filled list or entries of two ticks.
C29_CompleteTickOnly ==
    /\ \A list \in {latest_metrics, seen.metrics} : list = <<>> \/ IsWholeTick(list)
    /\ (ticks = 0 \/ (ticks = 1 /\ tpc \in {"submit", "collect"})) => latest_metrics = <<>>
    /\ (ticks > 0 /\ tpc \in {"sleep", "idle"}) =>
          /\ latest_metrics # <<>>
          /\ \A n \in DOMAIN NameRank :
                CountWhere(latest_metrics,
                           LAMBDA e : e.miner_name = n /\ e.status = "OFFLINE")
                    = CountWhere(futures,
                                 LAMBDA f : f.miner = n /\ f.outcome \in {"none", "raise"})
                /\ CountWhere(latest_metrics,
                              LAMBDA e : e.miner_name = n /\ e.status = "ONLINE")
                       = CountWhere(futures, LAMBDA f : f.miner = n /\ f.outcome = "data")

\* the second tick has gathered one of its two results, the other worker has
\* failed or is still running, and the reader holds the whole first tick, in
\* which M2 finished first, one miner was ONLINE and the other OFFLINE
C29_Witness ==
    /\ ticks = 2
    /\ tpc = "collect"
    /\ Len(all_metrics) = 1
    /\ seen.called
    /\ Len(seen.metrics) = 2
    /\ seen.metrics = latest_metrics
    /\ seen.metrics[1].miner_name = "M1"
    /\ seen.metrics[2].miner_name = "M2"
    /\ seen.metrics[1].status = "OFFLINE"
    /\ seen.metrics[2].status = "ONLINE"
    /\ seen.metrics[1].timestamp # all_metrics[1].timestamp

----------------------------------------------------------------------------
(* Properties of the daily summary under SpecTracker *)

====
